---- MODULE Spec2Model ----
(***************************************************************************)
(* The calculator tab store of src/app.tsx (component CryptoCalculator):   *)
(* the ordered collection of calculator instances, the active tab id, the  *)
(* History list, and the handlers that change them.                         *)
(*                                                                         *)
(* Text is modelled as a sequence of one-character strings, so that the    *)
(* template literals (`C ${count}`), the regular expressions               *)
(* (/^C (\d+)$/), parseInt and parseFloat are computed, not assumed.       *)
(* Date.now() is the variable `now`, which only the action Tick advances:  *)
(* two handlers that run with no Tick between them read the same           *)
(* millisecond.  Every action is one event handler together with the       *)
(* re-render that follows it (React 18 flushes a discrete event's updates  *)
(* and effects before the next event), so a handler always runs with the   *)
(* closures of the state it sees.                                          *)
(***************************************************************************)
EXTENDS Integers, Sequences, FiniteSets, TLC

VARIABLES
    calculators,    \* useState<CalculatorState[]>      (src/app.tsx:979)
    activeTabId,    \* useState(calculators[0].id)      (src/app.tsx:980)
    history,        \* useState([])                     (src/app.tsx:974)
    isInitialLoad,  \* useRef(true)                     (src/app.tsx:982)
    localStored,    \* the value under 'prisma-calc-state' in localStorage
    historyStored,  \* the value under 'prismaCryptoHistory' in localStorage
    cloudStored,    \* the settings the remote API returns for the token
    theme,          \* useState(defaultTheme)           (src/theme.tsx:66)
    darkMode,       \* useState(false)                  (src/theme.tsx:67)
    isCompact,      \* useState(false)                  (src/app.tsx:965)
    isPinned,       \* useState(false)                  (src/app.tsx:964)
    timers,         \* the timeouts of useDebouncedSave that are pending
    timeoutRef,     \* timeoutRef.current: the timeout set last, or null
    phase,          \* how far the mount of CryptoCalculator has come
    uncaught,       \* an error has been thrown that no handler caught
    user,           \* AuthProvider: useState(null)        (src/app.tsx:38)
    token,          \* AuthProvider: useState(stored token) (src/app.tsx:39)
    isAuthenticated,\* AuthProvider: useState(false)       (src/app.tsx:40)
    isLoading,      \* AuthProvider: useState(true)        (src/app.tsx:41)
    tokenStored,    \* the value under 'prisma-token' in localStorage
    requests,       \* the fetches that are in flight
    dollarRate,     \* useState(null)                      (src/app.tsx:966)
    lastDollarUpdate, \* useState<Date | null>(null)       (src/app.tsx:967)
    dollarLoading,  \* useState(true)                      (src/app.tsx:968)
    queued,         \* the state updates of the mount effects, not yet rendered
    now,            \* the value Date.now() returns
    edits,          \* how many texts have been typed (bounds the model)
    lastOp          \* the handler that ran last, with its inputs and reads

prefVars == <<theme, darkMode, isCompact, isPinned>>

timerVars == <<timers, timeoutRef>>

mountVars == <<phase, uncaught>>

authVars == <<user, token, isAuthenticated, isLoading, tokenStored>>

rateVars == <<dollarRate, lastDollarUpdate, dollarLoading>>

sessionVars == <<authVars, rateVars, requests, queued>>

vars == <<calculators, activeTabId, history, isInitialLoad, localStored,
          historyStored, cloudStored, theme, darkMode, isCompact, isPinned,
          timers, timeoutRef, phase, uncaught, user, token, isAuthenticated,
          isLoading, tokenStored, requests, dollarRate, lastDollarUpdate,
          dollarLoading, queued, now, edits, lastOp>>

---------------------------------------------------------------------------
(* Bounds of the model *)

MaxClock == 2

MaxTabs == 3

MaxEdits == 1

MaxPurchases == 2

(* How many entries are put into or taken out of the log and History *)
MaxInserts == 2

(* Math.random() is drawn from 0 .. RandMax, in units of 1/(RandMax+1);    *)
(* every purchase id is kept in those units.                               *)
RandMax == 1

(* Program constants *)

(* The delay of the debounced remote save, in milliseconds *)
DebounceDelay == 2000

HistoryCap == 50

LogCap == 100

---------------------------------------------------------------------------
(* Text *)

Digit == <<"0", "1", "2", "3", "4", "5", "6", "7", "8", "9">>

IsDigit(ch) == \E d \in 1..10 : Digit[d] = ch

DigitVal(ch) == (CHOOSE d \in 1..10 : Digit[d] = ch) - 1

RECURSIVE NumToString(_)
(* String(n) for a non-negative integer n, as a template literal prints it. *)
NumToString(n) ==
    IF n < 10 THEN <<Digit[n + 1]>>
    ELSE NumToString(n \div 10) \o <<Digit[(n % 10) + 1]>>

RECURSIVE parseInt(_)
(* parseInt(s, 10) of a non-empty run of decimal digits. *)
parseInt(s) ==
    IF Len(s) = 0 THEN 0
    ELSE parseInt(SubSeq(s, 1, Len(s) - 1)) * 10 + DigitVal(s[Len(s)])

(* name.match(/^<prefix> (\d+)$/): the digits captured, or <<>> for no match. *)
MatchNumbered(prefix, name) ==
    LET p == Len(prefix) IN
    IF /\ Len(name) >= p + 2
       /\ SubSeq(name, 1, p) = prefix
       /\ name[p + 1] = " "
       /\ \A k \in (p + 2)..Len(name) : IsDigit(name[k])
    THEN SubSeq(name, p + 2, Len(name))
    ELSE <<>>

CPrefix == <<"C">>

FRPrefix == <<"F", "R">>

(* `C ${count}` and `FR ${count}` *)
NumberedName(prefix, count) == prefix \o <<" ">> \o NumToString(count)

---------------------------------------------------------------------------
(* Instances *)

(* Date.now() + Math.random(), and a bare Date.now(), in units of 1/(RandMax+1) *)
PurchaseId(t, r) == t * (RandMax + 1) + r

getNewCalculator(id, count, t) ==
    [ id           |-> id,
      type         |-> "arbitrage",
      name         |-> NumberedName(CPrefix, count),
      openingExch1 |-> <<>>,
      openingExch2 |-> <<>>,
      closingExch1 |-> <<>>,
      closingExch2 |-> <<>>,
      totalCoins   |-> <<>>,
      purchases    |-> << [value |-> <<>>, id |-> PurchaseId(t, 0)] >>,
      showAverage  |-> FALSE ]

getNewFundingCalculator(id, count) ==
    [ id                |-> id,
      type              |-> "funding",
      name              |-> NumberedName(FRPrefix, count),
      positionSize      |-> <<>>,
      leverage          |-> <<"1", "0">>,
      fundingInterval   |-> <<"8">>,
      shortExchangeName |-> <<"E", "x", " ", "A", " ", "(", "S", "h", "o", "r", "t", ")">>,
      shortExchangeFR   |-> <<>>,
      longExchangeName  |-> <<"E", "x", " ", "B", " ", "(", "L", "o", "n", "g", ")">>,
      longExchangeFR    |-> <<>>,
      log               |-> <<>> ]

---------------------------------------------------------------------------
(* Numbers typed into the fields *)

RECURSIVE RunEnd(_, _)
(* The index just past the run of digits of s that starts at index i. *)
RunEnd(s, i) ==
    IF i <= Len(s) /\ IsDigit(s[i]) THEN RunEnd(s, i + 1) ELSE i

RECURSIVE Pow10(_)
Pow10(k) == IF k = 0 THEN 1 ELSE 10 * Pow10(k - 1)

(* parseFloat(s) for text without exponent or leading blanks: the longest   *)
(* prefix [+-]digits[.digits] with at least one digit, as the fraction     *)
(* num/den; NaN when there is none.                                        *)
parseFloat(s) ==
    LET signed   == Len(s) >= 1 /\ s[1] \in {"-", "+"}
        i0       == IF signed THEN 2 ELSE 1
        i1       == RunEnd(s, i0)
        hasPoint == i1 <= Len(s) /\ s[i1] = "."
        i2       == IF hasPoint THEN RunEnd(s, i1 + 1) ELSE i1
        intPart  == SubSeq(s, i0, i1 - 1)
        fracPart == IF hasPoint THEN SubSeq(s, i1 + 1, i2 - 1) ELSE <<>>
        mag      == parseInt(intPart \o fracPart)
    IN  IF Len(intPart) + Len(fracPart) = 0
        THEN [nan |-> TRUE, num |-> 0, den |-> 1]
        ELSE [nan |-> FALSE,
              num |-> IF signed /\ s[1] = "-" THEN 0 - mag ELSE mag,
              den |-> Pow10(Len(fracPart))]

(* A fallback that takes text that does not parse for 1 *)
OrZeroButNaNIsOne(x) == IF x.nan THEN [nan |-> FALSE, num |-> 1, den |-> 1] ELSE x

(* parseFloat(x) || 0  and  parseFloat(x) / 100 || 0 : NaN and 0 become 0. *)
OrZero(x) == IF x.nan THEN [nan |-> FALSE, num |-> 0, den |-> 1] ELSE x

(* parseFloat(x) || 1 : NaN and 0 become 1. *)
OrOne(x) == IF x.nan \/ x.num = 0 THEN [nan |-> FALSE, num |-> 1, den |-> 1] ELSE x

(* Numbers are exact fractions num/den with den > 0.  The program computes *)
(* in binary floating point; the texts the model types are short decimals, *)
(* for which the quotients and products below are far from any rounding    *)
(* boundary of toFixed unless they lie exactly on one in binary too.       *)
RECURSIVE GCD(_, _)
GCD(a, b) == IF b = 0 THEN a ELSE GCD(b, a % b)

(* n/d in lowest terms, for d > 0 *)
Frac(n, d) ==
    LET g == GCD(IF n < 0 THEN 0 - n ELSE n, d)
    IN  [num |-> n \div g, den |-> d \div g]

FracSub(a, b) == Frac(a.num * b.den - b.num * a.den, a.den * b.den)

FracMul(a, b) == Frac(a.num * b.num, a.den * b.den)

(* a / b for b # 0 *)
FracDiv(a, b) ==
    IF b.num > 0
    THEN Frac(a.num * b.den, a.den * b.num)
    ELSE Frac(0 - a.num * b.den, 0 - a.den * b.num)

RECURSIVE PadStart(_, _)
(* s.padStart(n, "0") *)
PadStart(s, n) == IF Len(s) >= n THEN s ELSE PadStart(<<"0">> \o s, n)

(* A toFixed that cuts the decimals off *)
toFixedTruncating(x, digits) ==
    LET mag == IF x.num < 0 THEN 0 - x.num ELSE x.num
        n   == (mag * Pow10(digits)) \div x.den
    IN  (IF x.num < 0 THEN <<"-">> ELSE <<>>)
            \o NumToString(n \div Pow10(digits)) \o <<".">>
            \o PadStart(NumToString(n % Pow10(digits)), digits)

(* Number.prototype.toFixed: the decimal with `digits` decimals nearest to *)
(* x, the larger in magnitude of two equally near; a negative x keeps its  *)
(* sign even when every digit is 0.                                        *)
toFixed(x, digits) ==
    LET mag    == IF x.num < 0 THEN 0 - x.num ELSE x.num
        scaled == mag * Pow10(digits)
        q      == scaled \div x.den
        n      == IF 2 * (scaled % x.den) >= x.den THEN q + 1 ELSE q
    IN  (IF x.num < 0 THEN <<"-">> ELSE <<>>)
            \o NumToString(n \div Pow10(digits)) \o <<".">>
            \o PadStart(NumToString(n % Pow10(digits)), digits)

(* CalculatorInstance.calculateDifference *)
calculateDifference(val1, val2) ==
    LET num1 == parseFloat(val1)
        num2 == parseFloat(val2)
    IN  IF ~num1.nan /\ ~num2.nan /\ num2.num # 0
        THEN toFixed(FracMul(FracDiv(FracSub(num1, num2), num2), Frac(100, 1)), 2)
        ELSE <<"0", ".", "0", "0">>

(* CompactCalculatorInstance.calculateDifference *)
compactCalculateDifference(val1, val2) ==
    LET num1 == parseFloat(val1)
        num2 == parseFloat(val2)
    IN  IF ~num1.nan /\ ~num2.nan /\ num2.num # 0
        THEN toFixed(FracMul(FracDiv(FracSub(num1, num2), num2), Frac(100, 1)), 2)
        ELSE <<"0", ".", "0", "0">>

RECURSIVE totalPurchases(_)
(* purchases.reduce((sum, p) => sum + parseFloat(p.value || '0'), 0): the   *)
(* sum is NaN as soon as one value is text that does not parse.            *)
totalPurchases(purchases) ==
    IF Len(purchases) = 0 THEN [nan |-> FALSE, num |-> 0, den |-> 1]
    ELSE LET sum   == totalPurchases(SubSeq(purchases, 1, Len(purchases) - 1))
             value == purchases[Len(purchases)].value
             x     == parseFloat(IF value = <<>> THEN <<"0">> ELSE value)
         IN  IF sum.nan \/ x.nan
             THEN [nan |-> TRUE, num |-> 0, den |-> 1]
             ELSE [nan |-> FALSE,
                   num |-> sum.num * x.den + x.num * sum.den,
                   den |-> sum.den * x.den]

(* CalculatorInstance.averagePrice *)
averagePrice(calc) ==
    LET coins == parseFloat(calc.totalCoins)
        total == totalPurchases(calc.purchases)
    IN  IF ~coins.nan /\ coins.num # 0 /\ ~total.nan /\ total.num > 0
        THEN toFixed(FracDiv(total, coins), 4)
        ELSE <<"0", ".", "0", "0", "0", "0">>

(* FundingRateInstance.calculations, as exact fractions (rates are          *)
(* percentages: the divisor 100 is in den).                                *)
calculations(calc) ==
    LET posSize  == OrZero(parseFloat(calc.positionSize))
        rA       == OrZero(parseFloat(calc.shortExchangeFR))
        rB       == OrZero(parseFloat(calc.longExchangeFR))
        lev      == OrOne(parseFloat(calc.leverage))
        interval == OrZero(parseFloat(calc.fundingInterval))
        rateNum  == rA.num * rB.den - rB.num * rA.den
        rateDen  == rA.den * rB.den * 100
        netProfitRate    == Frac(rateNum, rateDen)
        netProfitUSD     == Frac(posSize.num * rateNum, posSize.den * rateDen)
        periodsPerDay    == IF interval.num > 0
                            THEN FracDiv(Frac(24, 1), interval)
                            ELSE Frac(0, 1)
        dailyProfitUSD   == FracMul(netProfitUSD, periodsPerDay)
        monthlyProfitUSD == FracMul(dailyProfitUSD, Frac(30, 1))
        annualProfitUSD  == FracMul(dailyProfitUSD, Frac(365, 1))
        margin           == IF lev.num > 0 /\ posSize.num > 0
                            THEN FracDiv(posSize, lev)
                            ELSE Frac(0, 1)
        apy              == IF margin.num > 0
                            THEN FracMul(FracDiv(annualProfitUSD, margin), Frac(100, 1))
                            ELSE Frac(0, 1)
    IN  IF posSize.num = 0
        THEN [netProfitRate    |-> Frac(0, 1),
              netProfitUSD     |-> Frac(0, 1),
              dailyProfitUSD   |-> Frac(0, 1),
              monthlyProfitUSD |-> Frac(0, 1),
              annualProfitUSD  |-> Frac(0, 1),
              margin           |-> Frac(0, 1),
              apy              |-> Frac(0, 1)]
        ELSE [netProfitRate    |-> netProfitRate,
              netProfitUSD     |-> netProfitUSD,
              dailyProfitUSD   |-> dailyProfitUSD,
              monthlyProfitUSD |-> monthlyProfitUSD,
              annualProfitUSD  |-> annualProfitUSD,
              margin           |-> margin,
              apy              |-> apy]

---------------------------------------------------------------------------
(* The tab handlers, as functions of the state they read *)

Max(a, b) == IF a >= b THEN a ELSE b

Min(a, b) == IF a <= b THEN a ELSE b

(* xs.slice(0, n) *)
slice0(xs, n) == SubSeq(xs, 1, Min(Len(xs), n))

(* { ...a, ...b } *)
Spread(a, b) ==
    [f \in (DOMAIN a) \cup (DOMAIN b) |-> IF f \in DOMAIN b THEN b[f] ELSE a[f]]

(* match ? parseInt(match[1], 10) : 0 *)
NameNumber(prefix, name) ==
    LET m == MatchNumbered(prefix, name)
    IN  IF m # <<>> THEN parseInt(m) ELSE 0

(* calculators.filter(type).map(number of the name).sort((a, b) => a - b) *)
existingNumbers(calcs, type, prefix) ==
    LET same == SelectSeq(calcs, LAMBDA c : c.type = type)
    IN  SortSeq([k \in 1..Len(same) |-> NameNumber(prefix, same[k].name)],
                LAMBDA a, b : a < b)

RECURSIVE ScanCount(_, _, _)
(* for (const num of existingNumbers) if (num === newCount) newCount++ else break *)
ScanCount(nums, k, count) ==
    IF k > Len(nums) THEN count
    ELSE IF nums[k] = count THEN ScanCount(nums, k + 1, count + 1)
    ELSE count

newCount(nums) == ScanCount(nums, 1, 1)

handleAddArbitrageTab(calcs, t) ==
    LET newId   == t
        newCalc == getNewCalculator(
                       newId, newCount(existingNumbers(calcs, "arbitrage", CPrefix)), t)
    IN  [calculators |-> Append(calcs, newCalc), activeTabId |-> newId]

handleAddFundingTab(calcs, t) ==
    LET newId   == t
        newCalc == getNewFundingCalculator(
                       newId, newCount(existingNumbers(calcs, "funding", FRPrefix)))
    IN  [calculators |-> Append(calcs, newCalc), activeTabId |-> newId]

(* calculators.findIndex(c => c.id === id), counted from 1; 0 for -1 *)
findIndex(calcs, id) ==
    IF \E k \in 1..Len(calcs) : calcs[k].id = id
    THEN CHOOSE k \in 1..Len(calcs) :
             /\ calcs[k].id = id
             /\ \A j \in 1..(k - 1) : calcs[j].id # id
    ELSE 0

(* handleRemoveTab with the replacement tab numbered 0, as the load-time    *)
(* templates are, instead of 1                                             *)
handleRemoveTabCountZero(calcs, active, idToRemove, t) ==
    LET remainingCalculators == SelectSeq(calcs, LAMBDA c : c.id # idToRemove)
        newCalc              == getNewCalculator(t, 0, t)
        newActiveIndex       == Max(1, findIndex(calcs, idToRemove) - 1)
    IN  IF Len(remainingCalculators) = 0
        THEN [calculators |-> <<newCalc>>, activeTabId |-> newCalc.id]
        ELSE [calculators |-> remainingCalculators,
              activeTabId |-> IF idToRemove = active
                              THEN remainingCalculators[newActiveIndex].id
                              ELSE active]

handleRemoveTab(calcs, active, idToRemove, t) ==
    LET currentTabIndex      == findIndex(calcs, idToRemove)
        remainingCalculators == SelectSeq(calcs, LAMBDA c : c.id # idToRemove)
        newCalc              == getNewCalculator(t, 1, t)
        newActiveIndex       == Max(1, currentTabIndex - 1)
    IN  IF Len(remainingCalculators) = 0
        THEN [calculators |-> <<newCalc>>, activeTabId |-> newCalc.id]
        ELSE [calculators |-> remainingCalculators,
              activeTabId |-> IF idToRemove = active
                              THEN remainingCalculators[newActiveIndex].id
                              ELSE active]

handleRenameTab(calcs, id, newName) ==
    [k \in 1..Len(calcs) |->
        IF calcs[k].id = id THEN Spread(calcs[k], [name |-> newName]) ELSE calcs[k]]

(* handleUpdateInstance without the test of the id: the partial state is   *)
(* merged into every instance, calculators.map(calc => ({...calc, ...p}))  *)
handleUpdateInstanceEvery(calcs, active, partialState) ==
    [k \in 1..Len(calcs) |-> Spread(calcs[k], partialState)]

handleUpdateInstance(calcs, active, partialState) ==
    [k \in 1..Len(calcs) |->
        IF calcs[k].id = active THEN Spread(calcs[k], partialState) ELSE calcs[k]]

handleClearActiveTabFields(calcs, active, t) ==
    [k \in 1..Len(calcs) |->
        IF calcs[k].id = active
        THEN IF calcs[k].type = "funding"
             THEN Spread(calcs[k],
                      [positionSize    |-> <<>>,
                       shortExchangeFR |-> <<>>,
                       longExchangeFR  |-> <<>>,
                       log             |-> <<>>])
             ELSE Spread(calcs[k],
                      [openingExch1 |-> <<>>,
                       openingExch2 |-> <<>>,
                       closingExch1 |-> <<>>,
                       closingExch2 |-> <<>>,
                       totalCoins   |-> <<>>,
                       purchases    |-> << [value |-> <<>>, id |-> PurchaseId(t, 0)] >>])
        ELSE calcs[k]]

(* CalculatorInstance: the lists addPurchase, removePurchase and           *)
(* updatePurchase hand to setPurchases                                     *)
addPurchase(purchases, t, r) ==
    Append(purchases, [value |-> <<>>, id |-> PurchaseId(t, r)])

removePurchase(purchases, purchaseId) ==
    IF Len(purchases) > 1
    THEN SelectSeq(purchases, LAMBDA p : p.id # purchaseId)
    ELSE purchases

updatePurchase(purchases, purchaseId, value) ==
    [k \in 1..Len(purchases) |->
        IF purchases[k].id = purchaseId
        THEN Spread(purchases[k], [value |-> value])
        ELSE purchases[k]]

(* FundingRateInstance.handleLogPeriod: the log handed to onUpdate (the     *)
(* early return on a zero profit is the guard of the action LogPeriod)     *)
handleLogPeriod(calc, t) ==
    LET c           == calculations(calc)
        newLogEntry == [id        |-> t,
                        timestamp |-> t,
                        profit    |-> c.netProfitUSD,
                        rate      |-> c.netProfitRate]
    IN  slice0(<<newLogEntry>> \o calc.log, LogCap)

handleRemoveLogEntry(log, id) == SelectSeq(log, LAMBDA e : e.id # id)

(* addToHistory with the new item put last: [...prev, newItem].slice(0, 50) *)
addToHistoryAppends(prev, type, inputs, result, tabName, t) ==
    IF result = <<>> \/ result = <<"0", ".", "0", "0">>
                     \/ result = <<"0", ".", "0", "0", "0", "0">>
    THEN prev
    ELSE LET newItem == [id        |-> t,
                         timestamp |-> t,
                         type      |-> type,
                         inputs    |-> inputs,
                         result    |-> result,
                         tabName   |-> tabName]
         IN  slice0(prev \o <<newItem>>, HistoryCap)

(* addToHistory: the next History list *)
addToHistory(prev, type, inputs, result, tabName, t) ==
    IF result = <<>> \/ result = <<"0", ".", "0", "0">>
                     \/ result = <<"0", ".", "0", "0", "0", "0">>
    THEN prev
    ELSE LET newItem == [id        |-> t,
                         timestamp |-> t,
                         type      |-> type,
                         inputs    |-> inputs,
                         result    |-> result,
                         tabName   |-> tabName]
         IN  slice0(<<newItem>> \o prev, HistoryCap)

handleDeleteHistory(prev, id) == SelectSeq(prev, LAMBDA item : item.id # id)

(* What a save handler of a view does: calls onAddToHistory with these     *)
(* arguments, or nothing.                                                  *)
NoCall == [call |-> FALSE]

Call(type, inputs, result) ==
    [call |-> TRUE, type |-> type, inputs |-> inputs, result |-> result]

(* CalculatorInstance.handleSaveOpening *)
handleSaveOpening(calc) ==
    LET result == calculateDifference(calc.openingExch1, calc.openingExch2)
    IN  IF result # <<"0", ".", "0", "0">>
           /\ calc.openingExch1 # <<>> /\ calc.openingExch2 # <<>>
        THEN Call("Abertura",
                  [openingExch1 |-> calc.openingExch1,
                   openingExch2 |-> calc.openingExch2], result)
        ELSE NoCall

(* CalculatorInstance.handleSaveClosing *)
handleSaveClosing(calc) ==
    LET result == calculateDifference(calc.closingExch1, calc.closingExch2)
    IN  IF result # <<"0", ".", "0", "0">>
           /\ calc.closingExch1 # <<>> /\ calc.closingExch2 # <<>>
        THEN Call("Fechamento",
                  [closingExch1 |-> calc.closingExch1,
                   closingExch2 |-> calc.closingExch2], result)
        ELSE NoCall

(* A handleSaveAverage that does not look at the sign of the coins *)
handleSaveAverageAnyCoins(calc) ==
    LET result == averagePrice(calc)
        total  == totalPurchases(calc.purchases)
    IN  IF result # <<"0", ".", "0", "0", "0", "0">>
           /\ ~total.nan /\ total.num > 0
        THEN Call("Medio",
                  [totalCoins |-> calc.totalCoins,
                   purchases  |-> SelectSeq(calc.purchases,
                                            LAMBDA p : p.value # <<>>)], result)
        ELSE NoCall

(* CalculatorInstance.handleSaveAverage ('Médio' is written "Medio") *)
handleSaveAverage(calc) ==
    LET result == averagePrice(calc)
        coins  == parseFloat(calc.totalCoins)
        total  == totalPurchases(calc.purchases)
    IN  IF result # <<"0", ".", "0", "0", "0", "0">>
           /\ ~coins.nan /\ coins.num > 0
           /\ ~total.nan /\ total.num > 0
        THEN Call("Medio",
                  [totalCoins |-> calc.totalCoins,
                   purchases  |-> SelectSeq(calc.purchases,
                                            LAMBDA p : p.value # <<>>)], result)
        ELSE NoCall

(* FundingRateInstance.handleSaveToHistory *)
handleSaveToHistory(calc) ==
    LET c == calculations(calc)
    IN  IF c.netProfitUSD.num = 0
        THEN NoCall
        ELSE Call("Funding",
                  [positionSize    |-> calc.positionSize,
                   shortExchangeFR |-> calc.shortExchangeFR,
                   longExchangeFR  |-> calc.longExchangeFR],
                  toFixed(FracMul(c.netProfitRate, Frac(100, 1)), 4)
                      \o <<"%", " ", "(", "$">>
                      \o toFixed(c.netProfitUSD, 2) \o <<")">>)

---------------------------------------------------------------------------
(* The state after CryptoCalculator is constructed, and what the effects    *)
(* keep in step with it                                                    *)

NoSnapshot == [kind |-> "none"]

(* A stored text that JSON.parse rejects *)
CorruptJSON == [kind |-> "corrupt"]

(* What is under 'prismaCryptoHistory': nothing, or JSON.stringify(history) *)
NoHistory == [kind |-> "none"]

HistoryJson(items) == [kind |-> "json", items |-> items]

(* JSON.stringify({ calculators, activeTabId, ... }) under 'prisma-calc-state' *)
Snapshot(calcs, active) ==
    [kind |-> "json", calculators |-> calcs, activeTabId |-> active]

(* The theme objects: defaultTheme, and what the theme panel or a parsed    *)
(* snapshot hands to setTheme.  `parsed` tells an object that JSON.parse    *)
(* made from the one of the same content that the program holds.           *)
defaultTheme == [content |-> "default", parsed |-> FALSE]

customTheme == [content |-> "custom", parsed |-> FALSE]

(* JSON.stringify({ calculators, activeTabId, theme, isCompact, darkMode,   *)
(* isPinned }).  Every value of a model state is a string, a finite        *)
(* number, a boolean or a list of these, which JSON returns as written;    *)
(* of a theme object its content is written, not its identity.             *)
stateToSave(calcs, active, th, ic, dm, ip) ==
    [kind |-> "json", calculators |-> calcs, activeTabId |-> active,
     theme |-> th.content, isCompact |-> ic, darkMode |-> dm, isPinned |-> ip]

(* The payload of the remote save: { calculators, activeTabId, theme,       *)
(* darkMode }                                                              *)
cloudStateToSave(calcs, active, th, dm) ==
    [kind |-> "json", calculators |-> calcs, activeTabId |-> active,
     theme |-> th.content, darkMode |-> dm]

(* The text of calc.type in the template literal *)
TypeText(type) ==
    IF type = "funding"
    THEN <<"f", "u", "n", "d", "i", "n", "g">>
    ELSE <<"a", "r", "b", "i", "t", "r", "a", "g", "e">>

RECURSIVE join(_, _)
(* parts.join(sep) *)
join(parts, sep) ==
    IF Len(parts) = 0 THEN <<>>
    ELSE IF Len(parts) = 1 THEN parts[1]
    ELSE parts[1] \o sep \o join(Tail(parts), sep)

(* calculators.map(({ id, name, type }) => `${id}-${name}-${type}`).join(',') *)
calculatorStructure(calcs) ==
    join([k \in 1..Len(calcs) |->
             NumToString(calcs[k].id) \o <<"-">> \o calcs[k].name
                 \o <<"-">> \o TypeText(calcs[k].type)],
         <<",">>)

(* A local save effect that lacks isPinned among its dependencies *)
localSaveEffectUnlessPinned(loading, calcs, active, th, ic, dm, ip) ==
    IF loading \/ ip # isPinned
    THEN localStored
    ELSE stateToSave(calcs, active, th, ic, dm, ip)

(* The local save effect after a render with these six values: skipped     *)
(* while isInitialLoad.current is true.  Every handler hands its setter a  *)
(* new array or object or a toggled boolean, so that one of the effect's   *)
(* dependencies has changed in every render a handler causes.              *)
localSaveEffectOf(loading, calcs, active, th, ic, dm, ip) ==
    IF loading THEN localStored ELSE stateToSave(calcs, active, th, ic, dm, ip)

localSaveEffect(calcs, active) ==
    localSaveEffectOf(isInitialLoad, calcs, active, theme, isCompact, darkMode, isPinned)

(* The remote save effect with the calculators themselves among its        *)
(* dependencies in place of calculatorStructure                            *)
cloudDepsChangedOnCalculators(calcs, active, th, dm) ==
    \/ calcs # calculators
    \/ active # activeTabId
    \/ th # theme
    \/ dm # darkMode

(* One of the dependencies of the remote save effect differs from its      *)
(* value at the render before.                                             *)
cloudDepsChanged(calcs, active, th, dm) ==
    \/ calculatorStructure(calcs) # calculatorStructure(calculators)
    \/ active # activeTabId
    \/ th # theme
    \/ dm # darkMode

(* The timeout debouncedFunction sets at time t for the arguments args *)
newTimeout(args, t) == [payload |-> args, due |-> t + DebounceDelay]

NoTimeout == [due |-> 0]

(* A debouncedFunction that sets its timeout without clearing the one set  *)
(* before                                                                  *)
cloudSaveEffectNoClear(loading, calcs, active, th, dm) ==
    IF loading \/ ~cloudDepsChanged(calcs, active, th, dm)
    THEN [timers |-> timers, timeoutRef |-> timeoutRef]
    ELSE LET timeout == newTimeout(cloudStateToSave(calcs, active, th, dm), now)
         IN  [timers     |-> timers \cup {timeout},
              timeoutRef |-> timeout]

(* The remote save effect after a render with these values, and            *)
(* debouncedFunction: clearTimeout(timeoutRef.current), then setTimeout.   *)
(* Gives the timeouts pending afterwards and timeoutRef.current.           *)
cloudSaveEffectOf(loading, calcs, active, th, dm) ==
    IF loading \/ ~cloudDepsChanged(calcs, active, th, dm)
    THEN [timers |-> timers, timeoutRef |-> timeoutRef]
    ELSE LET timeout == newTimeout(cloudStateToSave(calcs, active, th, dm), now)
         IN  [timers     |-> (timers \ {timeoutRef}) \cup {timeout},
              timeoutRef |-> timeout]

activeCalculator ==
    IF \E k \in 1..Len(calculators) : calculators[k].id = activeTabId
    THEN calculators[findIndex(calculators, activeTabId)]
    ELSE [type |-> "undefined"]

TabIds == {calculators[k].id : k \in 1..Len(calculators)}

(* What lastOp records of a handler: its name, the id it was given or      *)
(* minted, its other input, the length of the collection and the active id *)
(* it found and, for an update, the handler that ran before.               *)
Stamp(op, id, arg) ==
    [op   |-> op,
     id   |-> id,
     arg  |-> arg,
     len  |-> Len(calculators),
     act  |-> activeTabId,
     prev |-> IF op = "updateInstance" THEN lastOp.op ELSE "-"]

(* The texts the model types into a tab name and into a field *)
RenameTexts == { <<"x">>, <<"C", " ", "1">>, <<"C", " ", "0">> }

FieldTexts == { <<"5">>, <<"0">> }

StartClock == 1

(* The values of AuthProvider's token and user states *)
NoToken == "null"

Tokens == {"t1", "t2"}

NoUser == [kind |-> "null"]

User(plan, role) == [kind |-> "user", plan |-> plan, role |-> role]

(* The values of dollarRate and lastDollarUpdate before a rate has come *)
NoRate == [kind |-> "null"]

NoDate == 0

(* No state update is waiting for a render *)
NothingQueued == [history |-> NoHistory, settings |-> NoSnapshot]

(* A logged-in Premium user whose token validation and first rate fetch    *)
(* are behind (the fetch failed: no rate is shown).                        *)
InitSession ==
    /\ user = User("Premium", "user")
    /\ token = "t1"
    /\ tokenStored = "t1"
    /\ isAuthenticated = TRUE
    /\ isLoading = FALSE
    /\ requests = {}
    /\ dollarRate = NoRate
    /\ lastDollarUpdate = NoDate
    /\ dollarLoading = FALSE
    /\ queued = NothingQueued

(* What the constructors leave besides the tabs, with the mount behind:    *)
(* the default theme, the toggles off, no timeout set.                     *)
InitSettled ==
    /\ theme = defaultTheme
    /\ darkMode = FALSE
    /\ isCompact = FALSE
    /\ isPinned = FALSE
    /\ timers = {}
    /\ timeoutRef = NoTimeout
    /\ phase = "ready"
    /\ uncaught = FALSE
    /\ InitSession

Init ==
    /\ InitSettled
    /\ now = StartClock
    /\ calculators = << getNewCalculator(StartClock, 1, StartClock) >>
    /\ activeTabId = StartClock
    /\ history = <<>>
    /\ isInitialLoad = FALSE
    /\ localStored = NoSnapshot
    /\ historyStored = HistoryJson(<<>>)
    /\ cloudStored = NoSnapshot
    /\ edits = 0
    /\ lastOp = [op |-> "mount", id |-> StartClock, arg |-> <<>>,
                 len |-> 0, act |-> 0, prev |-> "-"]

---------------------------------------------------------------------------
(* Actions: one per event handler *)

(* Time passes: Date.now() never decreases. *)
Tick ==
    /\ now < MaxClock
    /\ now' = now + 1
    /\ UNCHANGED <<calculators, activeTabId, history, isInitialLoad,
                   localStored, historyStored, cloudStored, edits, lastOp>>
    /\ UNCHANGED <<prefVars, timerVars, mountVars, sessionVars>>

(* Installs what a tab handler computed, and runs the effects of the       *)
(* re-render: the local save and the debounced remote save.                *)
SetTabs(calcs, active, stamp) ==
    /\ phase \in {"loading", "ready"}
    /\ calculators' = calcs
    /\ activeTabId' = active
    /\ localStored' = localSaveEffect(calcs, active)
    /\ LET e == cloudSaveEffectOf(isInitialLoad, calcs, active, theme, darkMode)
       IN  timers' = e.timers /\ timeoutRef' = e.timeoutRef
    /\ lastOp' = stamp
    /\ UNCHANGED <<history, historyStored, isInitialLoad, cloudStored, now>>
    /\ UNCHANGED <<prefVars, mountVars, sessionVars>>

AddArbitrageTab ==
    /\ Len(calculators) < MaxTabs
    /\ LET r == handleAddArbitrageTab(calculators, now)
       IN  SetTabs(r.calculators, r.activeTabId, Stamp("addArbitrageTab", now, <<>>))
    /\ UNCHANGED edits

AddFundingTab ==
    /\ Len(calculators) < MaxTabs
    /\ LET r == handleAddFundingTab(calculators, now)
       IN  SetTabs(r.calculators, r.activeTabId, Stamp("addFundingTab", now, <<>>))
    /\ UNCHANGED edits

(* The X of a tab, or Ctrl+W on the active tab *)
RemoveTab(idToRemove) ==
    /\ LET r == handleRemoveTab(calculators, activeTabId, idToRemove, now)
           i == findIndex(calculators, idToRemove)
       IN  SetTabs(r.calculators, r.activeTabId,
                   Stamp("removeTab", idToRemove, calculators[i].type))
    /\ UNCHANGED edits

RenameTab(id, newName) ==
    /\ edits < MaxEdits
    /\ edits' = edits + 1
    /\ SetTabs(handleRenameTab(calculators, id, newName), activeTabId,
               Stamp("renameTab", id, newName))

(* A click on a tab: setActiveTabId(calc.id) *)
SelectTab(id) ==
    /\ id # activeTabId
    /\ SetTabs(calculators, id, Stamp("selectTab", id, <<>>))
    /\ UNCHANGED edits

UpdateInstance(partialState) ==
    /\ edits < MaxEdits
    /\ edits' = edits + 1
    /\ SetTabs(handleUpdateInstance(calculators, activeTabId, partialState),
               activeTabId, Stamp("updateInstance", activeTabId, partialState))

ClearActiveTabFields ==
    /\ SetTabs(handleClearActiveTabFields(calculators, activeTabId, now),
               activeTabId, Stamp("clearActiveTabFields", activeTabId, <<>>))
    /\ UNCHANGED edits

Next ==
    \/ Tick
    \/ AddArbitrageTab
    \/ AddFundingTab
    \/ \E id \in TabIds : RemoveTab(id)
    \/ \E id \in TabIds : \E newName \in RenameTexts : RenameTab(id, newName)
    \/ \E id \in TabIds : SelectTab(id)

(* The tab lifecycle from a first run: no snapshot stored, load finished.   *)
(* The timeouts of the remote save are set; what they do when they fire is *)
(* the action RemoteWrite, which the specifications of the remote save     *)
(* take.                                                                   *)
Spec == Init /\ [][Next]_vars

---------------------------------------------------------------------------
(* Editing the fields of the tabs *)

(* The header button and Ctrl+H, offered for an arbitrage tab *)
ToggleAverage ==
    /\ activeCalculator.type = "arbitrage"
    /\ LET partialState == [showAverage |-> ~activeCalculator.showAverage]
       IN  SetTabs(handleUpdateInstance(calculators, activeTabId, partialState),
                   activeTabId, Stamp("updateInstance", activeTabId, partialState))
    /\ UNCHANGED edits

(* tutorialSteps[average-price-toggle].action *)
TutorialAverageStep ==
    /\ activeCalculator.type # "undefined"
    /\ ~("showAverage" \in DOMAIN activeCalculator /\ activeCalculator.showAverage)
    /\ LET partialState == [showAverage |-> TRUE]
       IN  SetTabs(handleUpdateInstance(calculators, activeTabId, partialState),
                   activeTabId, Stamp("updateInstance", activeTabId, partialState))
    /\ UNCHANGED edits

(* The onChange partial states the view of the active instance offers:     *)
(* FundingRateInstance for a funding tab, CalculatorInstance otherwise     *)
(* (its total-coins field only while the average panel is shown).          *)
ViewPartials ==
    IF activeCalculator.type = "funding"
    THEN {[positionSize |-> v] : v \in FieldTexts}
         \cup {[leverage |-> v] : v \in FieldTexts}
         \cup {[fundingInterval |-> v] : v \in FieldTexts}
         \cup {[shortExchangeName |-> v] : v \in FieldTexts}
         \cup {[shortExchangeFR |-> v] : v \in FieldTexts}
         \cup {[longExchangeName |-> v] : v \in FieldTexts}
         \cup {[longExchangeFR |-> v] : v \in FieldTexts}
    ELSE IF activeCalculator.type = "arbitrage"
    THEN {[openingExch1 |-> v] : v \in FieldTexts}
         \cup {[openingExch2 |-> v] : v \in FieldTexts}
         \cup {[closingExch1 |-> v] : v \in FieldTexts}
         \cup {[closingExch2 |-> v] : v \in FieldTexts}
         \cup (IF activeCalculator.showAverage
               THEN {[totalCoins |-> v] : v \in FieldTexts}
               ELSE {})
    ELSE {}

(* The purchase panel is rendered for an arbitrage tab with showAverage *)
PurchasePanelShown ==
    /\ activeCalculator.type = "arbitrage"
    /\ activeCalculator.showAverage

PurchaseIds ==
    IF PurchasePanelShown
    THEN {activeCalculator.purchases[k].id : k \in 1..Len(activeCalculator.purchases)}
    ELSE {}

SetPurchases(purchases, op, id) ==
    LET partialState == [purchases |-> purchases]
    IN  SetTabs(handleUpdateInstance(calculators, activeTabId, partialState),
                activeTabId, Stamp(op, id, partialState))

AddPurchase(r) ==
    /\ PurchasePanelShown
    /\ Len(activeCalculator.purchases) < MaxPurchases
    /\ SetPurchases(addPurchase(activeCalculator.purchases, now, r),
                    "addPurchase", PurchaseId(now, r))
    /\ UNCHANGED edits

RemovePurchase(purchaseId) ==
    /\ PurchasePanelShown
    /\ SetPurchases(removePurchase(activeCalculator.purchases, purchaseId),
                    "removePurchase", purchaseId)
    /\ UNCHANGED edits

UpdatePurchase(purchaseId, value) ==
    /\ PurchasePanelShown
    /\ edits < MaxEdits
    /\ edits' = edits + 1
    /\ SetPurchases(updatePurchase(activeCalculator.purchases, purchaseId, value),
                    "updatePurchase", purchaseId)

(* Two tabs, made by the handlers from the state after construction: the   *)
(* second in the same millisecond as the first, or in a later one.         *)
InitEdit ==
    /\ now \in StartClock..MaxClock
    /\ \E second \in {"arbitrage", "funding"} :
         LET first == << getNewCalculator(StartClock, 1, StartClock) >>
             r     == IF second = "funding"
                      THEN handleAddFundingTab(first, now)
                      ELSE handleAddArbitrageTab(first, now)
         IN  /\ calculators = r.calculators
             /\ activeTabId = r.activeTabId
             /\ localStored = stateToSave(r.calculators, r.activeTabId,
                                          defaultTheme, FALSE, FALSE, FALSE)
             /\ timeoutRef = newTimeout(
                     cloudStateToSave(r.calculators, r.activeTabId,
                                      defaultTheme, FALSE), now)
             /\ timers = {timeoutRef}
             /\ lastOp = [op   |-> IF second = "funding"
                                   THEN "addFundingTab" ELSE "addArbitrageTab",
                          id   |-> now,
                          arg  |-> <<>>,
                          len  |-> 1,
                          act  |-> StartClock,
                          prev |-> "-"]
    /\ history = <<>>
    /\ historyStored = HistoryJson(<<>>)
    /\ isInitialLoad = FALSE
    /\ cloudStored = NoSnapshot
    /\ edits = 0
    /\ theme = defaultTheme
    /\ darkMode = FALSE
    /\ isCompact = FALSE
    /\ isPinned = FALSE
    /\ phase = "ready"
    /\ uncaught = FALSE
    /\ InitSession

NextEdit ==
    \/ Tick
    \/ \E id \in TabIds : SelectTab(id)
    \/ \E partialState \in ViewPartials : UpdateInstance(partialState)
    \/ ToggleAverage
    \/ TutorialAverageStep
    \/ ClearActiveTabFields

SpecEdit == InitEdit /\ [][NextEdit]_vars

NextPurchases ==
    \/ Tick
    \/ \E id \in TabIds : SelectTab(id)
    \/ ToggleAverage
    \/ ClearActiveTabFields
    \/ \E r \in 0..RandMax : AddPurchase(r)
    \/ \E purchaseId \in PurchaseIds : RemovePurchase(purchaseId)
    \/ \E purchaseId \in PurchaseIds : \E v \in FieldTexts : UpdatePurchase(purchaseId, v)

SpecPurchases == InitEdit /\ [][NextPurchases]_vars

(***************************************************************************)
(* The preferences and the debounced remote save                           *)
(***************************************************************************)

(* Installs what a preference setter was given, and runs the effects of    *)
(* the re-render: the local save and the debounced remote save.            *)
SetPrefs(th, dm, ic, ip, stamp) ==
    /\ phase \in {"loading", "ready"}
    /\ theme' = th
    /\ darkMode' = dm
    /\ isCompact' = ic
    /\ isPinned' = ip
    /\ localStored' = localSaveEffectOf(isInitialLoad, calculators, activeTabId,
                                        th, ic, dm, ip)
    /\ LET e == cloudSaveEffectOf(isInitialLoad, calculators, activeTabId, th, dm)
       IN  timers' = e.timers /\ timeoutRef' = e.timeoutRef
    /\ lastOp' = stamp
    /\ UNCHANGED <<calculators, activeTabId, history, historyStored,
                   isInitialLoad, cloudStored, now, mountVars, sessionVars>>

(* setDarkMode(!darkMode): the header button and Ctrl+D *)
ToggleDarkMode ==
    /\ edits < MaxEdits
    /\ edits' = edits + 1
    /\ SetPrefs(theme, ~darkMode, isCompact, isPinned,
                Stamp("setDarkMode", 0, ~darkMode))

(* The colours a colour picker of the theme panel can leave *)
ThemeContents == {"custom"}

(* onThemeUpdate of the theme panel: setTheme(newTheme), newTheme a new    *)
(* object that differs from the theme in the colour picked                 *)
ThemeUpdate(content) ==
    /\ content # theme.content
    /\ edits < MaxEdits
    /\ edits' = edits + 1
    /\ SetPrefs([content |-> content, parsed |-> FALSE], darkMode, isCompact,
                isPinned, Stamp("setTheme", 0, content))

(* onReset of the theme panel: setTheme(defaultTheme).  The same object    *)
(* set again is no change of state and renders nothing.                    *)
ThemeReset ==
    /\ theme # defaultTheme
    /\ edits < MaxEdits
    /\ edits' = edits + 1
    /\ SetPrefs(defaultTheme, darkMode, isCompact, isPinned,
                Stamp("setTheme", 0, defaultTheme.content))

(* setIsCompact(!isCompact): the header button and Ctrl+M *)
ToggleCompact ==
    /\ edits < MaxEdits
    /\ edits' = edits + 1
    /\ SetPrefs(theme, darkMode, ~isCompact, isPinned,
                Stamp("setIsCompact", 0, ~isCompact))

(* setIsPinned(!isPinned): the header button and Ctrl+P *)
TogglePinned ==
    /\ edits < MaxEdits
    /\ edits' = edits + 1
    /\ SetPrefs(theme, darkMode, isCompact, ~isPinned,
                Stamp("setIsPinned", 0, ~isPinned))

(* The callback of saveSettingsToCloud without its first line *)
saveSettingsToCloudNoTokenCheck(tok, settingsToSave, ok, stored) ==
    IF ok THEN settingsToSave ELSE stored

(* The callback of saveSettingsToCloud, called with settingsToSave in a    *)
(* component whose token is tok: what the remote API holds afterwards, of  *)
(* which it held stored.  Without a token it returns before the fetch; a   *)
(* PUT that fails is caught and logged.                                    *)
saveSettingsToCloud(tok, settingsToSave, ok, stored) ==
    IF tok = NoToken THEN stored
    ELSE IF ok THEN settingsToSave
    ELSE stored

(* A timeout of useDebouncedSave that is due fires and calls                *)
(* saveSettingsToCloud's callback with the arguments it was set with: a    *)
(* PUT of the payload, which the server stores or fails to (the failure is *)
(* caught and logged); without a token the callback returns at once.       *)
(* timeoutRef.current keeps the id of the timeout.                         *)
RemoteWrite ==
    \E timeout \in timers, ok \in BOOLEAN :
        /\ now >= timeout.due
        /\ timers' = timers \ {timeout}
        /\ cloudStored' = saveSettingsToCloud(token, timeout.payload, ok, cloudStored)
        /\ lastOp' = Stamp(IF token # NoToken THEN "remoteWrite" ELSE "noToken",
                           timeout.due, timeout.payload)
        /\ UNCHANGED <<calculators, activeTabId, history, historyStored,
                       isInitialLoad, localStored, timeoutRef, now, edits,
                       prefVars, mountVars, sessionVars>>

(* How many quiet periods a behaviour waits through *)
MaxWaits == 2

(* Time passes with no event: just short of the debounce delay, or all of  *)
(* it.                                                                     *)
Wait(d) ==
    /\ now + d <= MaxClock + MaxWaits * DebounceDelay
    /\ now' = now + d
    /\ UNCHANGED <<calculators, activeTabId, history, isInitialLoad,
                   localStored, historyStored, cloudStored, edits, lastOp>>
    /\ UNCHANGED <<prefVars, timerVars, mountVars, sessionVars>>

(* A session some way in: a funding tab was added to the first tab a moment *)
(* ago, so that its remote save is pending; the theme is the default one   *)
(* or one the user made; everything is saved locally.                      *)
InitCloud ==
    /\ now \in StartClock..MaxClock
    /\ LET r == handleAddFundingTab(<< getNewCalculator(StartClock, 1, StartClock) >>, now)
       IN  /\ calculators = r.calculators
           /\ activeTabId = r.activeTabId
    /\ theme \in {defaultTheme, customTheme}
    /\ darkMode = FALSE
    /\ isCompact = FALSE
    /\ isPinned = FALSE
    /\ localStored = stateToSave(calculators, activeTabId, theme,
                                 isCompact, darkMode, isPinned)
    /\ timeoutRef = newTimeout(
            cloudStateToSave(calculators, activeTabId, theme, darkMode), now)
    /\ timers = {timeoutRef}
    /\ lastOp = [op |-> "addFundingTab", id |-> now, arg |-> <<>>, len |-> 1,
                 act |-> StartClock, prev |-> "-"]
    /\ history = <<>>
    /\ historyStored = HistoryJson(<<>>)
    /\ isInitialLoad = FALSE
    /\ cloudStored = NoSnapshot
    /\ edits = 0
    /\ phase = "ready"
    /\ uncaught = FALSE
    /\ InitSession

(* The field edits of the views taken here: a price or the average panel  *)
(* of an arbitrage tab, a rate of a funding tab                            *)
CloudPartials ==
    { p \in ViewPartials : DOMAIN p \subseteq {"openingExch1", "shortExchangeFR"} }
    \cup (IF activeCalculator.type = "arbitrage"
          THEN {[showAverage |-> ~activeCalculator.showAverage]}
          ELSE {})

NextCloud ==
    \/ Tick
    \/ \E d \in {DebounceDelay - 1, DebounceDelay} : Wait(d)
    \/ \E newName \in RenameTexts : RenameTab(activeTabId, newName)
    \/ \E id \in TabIds : SelectTab(id)
    \/ \E partialState \in CloudPartials : UpdateInstance(partialState)
    \/ ToggleDarkMode
    \/ \E content \in ThemeContents : ThemeUpdate(content)
    \/ ThemeReset
    \/ ToggleCompact
    \/ TogglePinned
    \/ RemoteWrite

(* The session of a logged-in user from a first run with the load          *)
(* finished, the timeouts of the remote save firing when they are due.     *)
SpecCloud == InitCloud /\ [][NextCloud]_vars

(* The same session, of a user whose token is there or is not: a profile   *)
(* validation answered after a logout leaves the calculator mounted        *)
(* without a token.                                                        *)
InitPayload ==
    /\ now \in StartClock..MaxClock
    /\ LET r == handleAddFundingTab(<< getNewCalculator(StartClock, 1, StartClock) >>, now)
       IN  /\ calculators = r.calculators
           /\ activeTabId = r.activeTabId
    /\ theme = defaultTheme
    /\ darkMode = FALSE
    /\ isCompact = FALSE
    /\ isPinned = FALSE
    /\ localStored = stateToSave(calculators, activeTabId, theme,
                                 isCompact, darkMode, isPinned)
    /\ timeoutRef = newTimeout(
            cloudStateToSave(calculators, activeTabId, theme, darkMode), now)
    /\ timers = {timeoutRef}
    /\ lastOp = [op |-> "addFundingTab", id |-> now, arg |-> <<>>, len |-> 1,
                 act |-> StartClock, prev |-> "-"]
    /\ history = <<>>
    /\ historyStored = HistoryJson(<<>>)
    /\ isInitialLoad = FALSE
    /\ cloudStored = NoSnapshot
    /\ edits = 0
    /\ phase = "ready"
    /\ uncaught = FALSE
    /\ user = User("Premium", "user")
    /\ token \in {NoToken, "t1"}
    /\ tokenStored = token
    /\ isAuthenticated = TRUE
    /\ isLoading = FALSE
    /\ requests = {}
    /\ dollarRate = NoRate
    /\ lastDollarUpdate = NoDate
    /\ dollarLoading = FALSE
    /\ queued = NothingQueued

NextPayload ==
    \/ Tick
    \/ \E d \in {DebounceDelay - 1, DebounceDelay} : Wait(d)
    \/ \E newName \in RenameTexts : RenameTab(activeTabId, newName)
    \/ \E id \in TabIds : SelectTab(id)
    \/ \E partialState \in CloudPartials : UpdateInstance(partialState)
    \/ ToggleDarkMode
    \/ RemoteWrite

(* Changes and field edits under a pending remote save, and its timeout    *)
(* firing                                                                  *)
SpecPayload == InitPayload /\ [][NextPayload]_vars

---------------------------------------------------------------------------
(* Properties of the tab lifecycle *)

(* The step is one run of the handler named op (Tick alone leaves lastOp). *)
Ran(op) == lastOp'.op = op /\ now' = now

Last(xs) == xs[Len(xs)]

(* xs without its element at position i *)
RemoveAt(xs, i) == SubSeq(xs, 1, i - 1) \o SubSeq(xs, i + 1, Len(xs))

ArbitrageFields ==
    {"id", "type", "name", "openingExch1", "openingExch2", "closingExch1",
     "closingExch2", "totalCoins", "purchases", "showAverage"}

FundingFields ==
    {"id", "type", "name", "positionSize", "leverage", "fundingInterval",
     "shortExchangeName", "shortExchangeFR", "longExchangeName",
     "longExchangeFR", "log"}

(* The numbers of the instances of a variant whose name matches its pattern *)
NumbersOf(calcs, type, prefix) ==
    {parseInt(MatchNumbered(prefix, calcs[k].name)) :
        k \in {j \in 1..Len(calcs) :
                 calcs[j].type = type /\ MatchNumbered(prefix, calcs[j].name) # <<>>}}

(* The smallest positive integer that is not in S *)
LowestUnused(S) ==
    CHOOSE n \in 1..(Cardinality(S) + 1) :
        n \notin S /\ \A m \in 1..(n - 1) : m \in S

(* Every name of the variant matches its pattern, and no two of its        *)
(* instances carry the same number.                                        *)
NumberedDistinctly(calcs, type, prefix) ==
    LET same == {k \in 1..Len(calcs) : calcs[k].type = type}
    IN  /\ \A k \in same : MatchNumbered(prefix, calcs[k].name) # <<>>
        /\ \A j, k \in same :
              j # k => NameNumber(prefix, calcs[j].name) # NameNumber(prefix, calcs[k].name)

(* C1: in every reachable state the ids of the instances of the collection *)
(* are pairwise distinct, whatever millisecond each add or remove reads.   *)
IdsPairwiseDistinct ==
    \A j, k \in 1..Len(calculators) :
        j # k => calculators[j].id # calculators[k].id

(* C3: removeTab(id) on a collection whose only instance has that id       *)
(* leaves exactly one instance, a default arbitrage instance named "C 1"   *)
(* with empty fields, and that instance is the active one.                 *)
RemoveLastTabLeavesDefault ==
    [][ ( /\ Ran("removeTab")
          /\ Len(calculators) = 1
          /\ calculators[1].id = lastOp'.id )
        => ( /\ Len(calculators') = 1
             /\ LET c == calculators'[1]
                IN  /\ DOMAIN c = ArbitrageFields
                    /\ c.type = "arbitrage"
                    /\ c.name = <<"C", " ", "1">>
                    /\ c.openingExch1 = <<>> /\ c.openingExch2 = <<>>
                    /\ c.closingExch1 = <<>> /\ c.closingExch2 = <<>>
                    /\ c.totalCoins = <<>>
                    /\ Len(c.purchases) = 1
                    /\ c.purchases[1].value = <<>>
                    /\ c.showAverage = FALSE
                    /\ activeTabId' = c.id ) ]_vars

(* A funding tab that was alone has been removed, and a "C 1" tab stands   *)
(* in its place as the active one.                                         *)
RemovedLastFundingTab ==
    /\ lastOp.op = "removeTab"
    /\ lastOp.len = 1
    /\ lastOp.arg = "funding"
    /\ Len(calculators) = 1
    /\ calculators[1].type = "arbitrage"
    /\ activeTabId = calculators[1].id

(* C4: removeTab(id) on a collection of two or more instances removes the  *)
(* instance at the position i of id and nothing else, the others keeping   *)
(* order and contents; if id was active the new active id is that of the   *)
(* instance at i-1, or of the first remaining one when i is the first      *)
(* position; if id was not active, activeTabId is unchanged.               *)
RemoveTabKeepsTheOthers ==
    [][ ( /\ Ran("removeTab")
          /\ Len(calculators) >= 2 )
        => \E i \in 1..Len(calculators) :
              /\ calculators[i].id = lastOp'.id
              /\ calculators' = RemoveAt(calculators, i)
              /\ lastOp'.id = activeTabId =>
                    activeTabId' = IF i > 1 THEN calculators[i - 1].id
                                   ELSE calculators'[1].id
              /\ lastOp'.id # activeTabId => activeTabId' = activeTabId ]_vars

(* C5: for every collection, renamed tabs included, addArbitrageTab (resp. *)
(* addFundingTab) names the new instance "C n" (resp. "FR n") with n the   *)
(* smallest positive integer that no instance of the variant is numbered.  *)
AddNamesLowestUnusedNumber ==
    [][ /\ Ran("addArbitrageTab") =>
             Last(calculators').name =
                 NumberedName(CPrefix,
                     LowestUnused(NumbersOf(calculators, "arbitrage", CPrefix)))
        /\ Ran("addFundingTab") =>
             Last(calculators').name =
                 NumberedName(FRPrefix,
                     LowestUnused(NumbersOf(calculators, "funding", FRPrefix))) ]_vars

(* C6: when every name of the variant matches the pattern and the numbers  *)
(* are distinct, the new tab takes the lowest number that is free (a gap   *)
(* before the maximum, else the maximum plus one), whatever tabs the other *)
(* variant has.                                                            *)
AddFillsLowestGapWhenNumbered ==
    [][ /\ ( /\ Ran("addArbitrageTab")
             /\ NumberedDistinctly(calculators, "arbitrage", CPrefix) )
           => Last(calculators').name =
                 NumberedName(CPrefix,
                     LowestUnused(NumbersOf(calculators, "arbitrage", CPrefix)))
        /\ ( /\ Ran("addFundingTab")
             /\ NumberedDistinctly(calculators, "funding", FRPrefix) )
           => Last(calculators').name =
                 NumberedName(FRPrefix,
                     LowestUnused(NumbersOf(calculators, "funding", FRPrefix))) ]_vars

(* The positive case of C6, which the code does satisfy: with every name   *)
(* of the variant matching, the numbers distinct and all of them at least  *)
(* 1, the new tab takes the lowest free number.  (A tab renamed "C 0"      *)
(* matches the pattern with the number 0 and stops the scan at once.)      *)
AddFillsLowestGapFromOne ==
    [][ /\ ( /\ Ran("addArbitrageTab")
             /\ NumberedDistinctly(calculators, "arbitrage", CPrefix)
             /\ \A n \in NumbersOf(calculators, "arbitrage", CPrefix) : n >= 1 )
           => Last(calculators').name =
                 NumberedName(CPrefix,
                     LowestUnused(NumbersOf(calculators, "arbitrage", CPrefix)))
        /\ ( /\ Ran("addFundingTab")
             /\ NumberedDistinctly(calculators, "funding", FRPrefix)
             /\ \A n \in NumbersOf(calculators, "funding", FRPrefix) : n >= 1 )
           => Last(calculators').name =
                 NumberedName(FRPrefix,
                     LowestUnused(NumbersOf(calculators, "funding", FRPrefix))) ]_vars

---------------------------------------------------------------------------
(* Properties of the field edits *)

(* C7: updateInstance(partialFields) changes only the instance whose id is *)
(* the current activeTabId, and in it only the fields partialFields names; *)
(* every other instance, every other field, the order of the collection    *)
(* and activeTabId stay as they were, also when the update directly        *)
(* follows a change of the active tab.                                     *)
UpdateTouchesOnlyActiveInstance ==
    [][ Ran("updateInstance")
        => LET partialFields == lastOp'.arg
           IN  /\ activeTabId' = activeTabId
               /\ Len(calculators') = Len(calculators)
               /\ \A k \in 1..Len(calculators) :
                     LET before == calculators[k]
                         after  == calculators'[k]
                     IN  /\ after.id = before.id
                         /\ before.id # activeTabId => after = before
                         /\ before.id = activeTabId =>
                               /\ DOMAIN after = DOMAIN before \cup DOMAIN partialFields
                               /\ \A f \in DOMAIN partialFields :
                                     after[f] = partialFields[f]
                               /\ \A f \in DOMAIN before \ DOMAIN partialFields :
                                     after[f] = before[f] ]_vars

(* An update ran directly after a click on another tab: the tab selected   *)
(* holds the text typed, and the tab that was active before holds none.    *)
UpdatedRightAfterSelect ==
    /\ lastOp.op = "updateInstance"
    /\ lastOp.prev = "selectTab"
    /\ \E k \in 1..Len(calculators) :
          /\ calculators[k].id = activeTabId
          /\ calculators[k].type = "arbitrage"
          /\ calculators[k].openingExch1 = <<"5">>
    /\ \E k \in 1..Len(calculators) :
          /\ calculators[k].id # activeTabId
          /\ calculators[k] = getNewFundingCalculator(calculators[k].id, 1)

(* C8: clearActiveFields() keeps id, name and type of the active instance, *)
(* sets its content fields to the values of a fresh default instance of    *)
(* its variant (funding: positionSize, leverage, fundingInterval, both     *)
(* rates, the log; arbitrage: the four prices, totalCoins and one empty    *)
(* purchase entry), and leaves every other instance unchanged.             *)
ClearResetsContentFieldsToDefaults ==
    [][ Ran("clearActiveTabFields")
        => /\ Len(calculators') = Len(calculators)
           /\ \A k \in 1..Len(calculators) :
                 LET before == calculators[k]
                     after  == calculators'[k]
                     fresh  == getNewFundingCalculator(0, 0)
                 IN  /\ before.id # activeTabId => after = before
                     /\ before.id = activeTabId =>
                           /\ after.id = before.id
                           /\ after.name = before.name
                           /\ after.type = before.type
                           /\ before.type = "funding" =>
                                 /\ after.positionSize = fresh.positionSize
                                 /\ after.leverage = fresh.leverage
                                 /\ after.fundingInterval = fresh.fundingInterval
                                 /\ after.shortExchangeFR = fresh.shortExchangeFR
                                 /\ after.longExchangeFR = fresh.longExchangeFR
                                 /\ after.log = fresh.log
                           /\ before.type = "arbitrage" =>
                                 /\ after.openingExch1 = <<>>
                                 /\ after.openingExch2 = <<>>
                                 /\ after.closingExch1 = <<>>
                                 /\ after.closingExch2 = <<>>
                                 /\ after.totalCoins = <<>>
                                 /\ Len(after.purchases) = 1
                                 /\ after.purchases[1].value = <<>> ]_vars

(* C9: in every reachable state the purchase list of every arbitrage       *)
(* instance has at least one entry.                                        *)
PurchaseListNeverEmpty ==
    \A k \in 1..Len(calculators) :
        calculators[k].type = "arbitrage" => Len(calculators[k].purchases) >= 1

---------------------------------------------------------------------------
(* Loading the persisted settings at mount *)

HasCalculators(settings) == "calculators" \in DOMAIN settings

(* mergeCalculators with the two spreads exchanged, so that the remote     *)
(* value of a field wins: {...localMatch, ...cloudCalc}                    *)
mergeCalculatorsCloudWins(cloudCalcs, localCalcs) ==
    [k \in 1..Len(cloudCalcs) |->
        LET localMatch == findIndex(localCalcs, cloudCalcs[k].id)
        IN  IF localMatch # 0
            THEN Spread(localCalcs[localMatch], cloudCalcs[k])
            ELSE cloudCalcs[k]]

(* cloudSettings.calculators.map(cloudCalc => localMatch ?                  *)
(*     {...cloudCalc, ...localMatch} : cloudCalc)                          *)
mergeCalculators(cloudCalcs, localCalcs) ==
    [k \in 1..Len(cloudCalcs) |->
        LET localMatch == findIndex(localCalcs, cloudCalcs[k].id)
        IN  IF localMatch # 0
            THEN Spread(cloudCalcs[k], localCalcs[localMatch])
            ELSE cloudCalcs[k]]

(* The migration without the spread of the default state *)
migrateCalculatorNoDefaults(calc, t) ==
    Spread(calc,
           [type |-> IF "type" \in DOMAIN calc THEN calc.type ELSE "arbitrage",
            log  |-> IF "log" \in DOMAIN calc THEN calc.log ELSE <<>>])

(* { ...defaultState, ...calc, type: calc.type || 'arbitrage',              *)
(*   log: calc.log || [] }                                                 *)
migrateCalculator(calc, t) ==
    LET isFunding    == "type" \in DOMAIN calc /\ calc.type = "funding"
        defaultState == IF isFunding
                        THEN getNewFundingCalculator(0, 0)
                        ELSE getNewCalculator(0, 0, t)
    IN  Spread(Spread(defaultState, calc),
               [type |-> IF "type" \in DOMAIN calc THEN calc.type ELSE "arbitrage",
                log  |-> IF "log" \in DOMAIN calc THEN calc.log ELSE <<>>])

(* loadSettings from the two snapshots read (NoSnapshot: nothing stored,    *)
(* not logged in, or the read failed): what it installs, whether it threw  *)
(* before reaching isInitialLoad.current = false, and whether it called    *)
(* the setters.  A snapshot without the calculators field makes the merge  *)
(* call .map or .find on undefined, which rejects the promise.             *)
loadSettings(cloudSettings, localSettings, calcs, active, t) ==
    LET both         == cloudSettings # NoSnapshot /\ localSettings # NoSnapshot
        baseSettings == IF cloudSettings # NoSnapshot THEN cloudSettings
                                                      ELSE localSettings
        kept(threw)  == [calculators |-> calcs, activeTabId |-> active,
                         threw |-> threw, installed |-> FALSE]
    IN  IF baseSettings = NoSnapshot THEN kept(FALSE)
        ELSE IF both /\ ( \/ ~HasCalculators(cloudSettings)
                          \/ /\ Len(cloudSettings.calculators) > 0
                             /\ ~HasCalculators(localSettings) )
        THEN kept(TRUE)
        ELSE LET list == IF both
                         THEN mergeCalculators(cloudSettings.calculators,
                                               localSettings.calculators)
                         ELSE IF HasCalculators(baseSettings)
                         THEN baseSettings.calculators
                         ELSE <<>>
                 migratedCalculators ==
                     [k \in 1..Len(list) |-> migrateCalculator(list[k], t)]
             IN  IF Len(list) > 0
                 THEN [calculators |-> migratedCalculators,
                       activeTabId |->
                           IF /\ "activeTabId" \in DOMAIN baseSettings
                              /\ baseSettings.activeTabId # 0
                           THEN baseSettings.activeTabId
                           ELSE migratedCalculators[1].id,
                       threw       |-> FALSE,
                       installed   |-> TRUE]
                 ELSE kept(FALSE)

(* The local read of loadSettings: JSON.parse in a try block, whose catch   *)
(* logs and leaves localSettings null                                      *)
readLocalSettings(stored) == IF stored = CorruptJSON THEN NoSnapshot ELSE stored

(* baseSettings.darkMode || false, localSettings?.isCompact || false *)
Truthy(settings, field) ==
    /\ settings # NoSnapshot
    /\ field \in DOMAIN settings
    /\ settings[field] = TRUE

(* baseSettings.theme || defaultTheme *)
loadedTheme(baseSettings) ==
    IF "theme" \in DOMAIN baseSettings
    THEN [content |-> baseSettings.theme, parsed |-> TRUE]
    ELSE defaultTheme

(* What loadSettings leaves from the two snapshots read, in a component    *)
(* whose state is the current one: the values its setters were given (or   *)
(* the current ones), and whether a setter was called at all.              *)
loadOutcome(cloudSettings, localSettings) ==
    LET r    == loadSettings(cloudSettings, localSettings, calculators, activeTabId, now)
        base == IF cloudSettings # NoSnapshot THEN cloudSettings ELSE localSettings
        ran  == base # NoSnapshot /\ ~r.threw
        ic   == IF ran THEN Truthy(localSettings, "isCompact") ELSE isCompact
        ip   == IF ran THEN Truthy(localSettings, "isPinned") ELSE isPinned
    IN  [kind        |-> "loaded",
         calculators |-> r.calculators,
         activeTabId |-> r.activeTabId,
         theme       |-> IF r.installed THEN loadedTheme(base) ELSE theme,
         darkMode    |-> IF r.installed THEN Truthy(base, "darkMode") ELSE darkMode,
         isCompact   |-> ic,
         isPinned    |-> ip,
         threw       |-> r.threw,
         installed   |-> r.installed,
         rendered    |-> r.installed \/ ic # isCompact \/ ip # isPinned]

(* The completion of loadSettings after the remote read, which the mount   *)
(* started.  It calls the setters and then sets isInitialLoad.current =    *)
(* false; the re-render they cause runs the save effects.  A load that     *)
(* threw leaves the state and the flag as they were and its promise        *)
(* rejected.                                                               *)
LoadSettings ==
    /\ phase = "loading"
    /\ LET o == loadOutcome(cloudStored, readLocalSettings(localStored))
           loading == isInitialLoad /\ o.threw
           e == cloudSaveEffectOf(loading, o.calculators, o.activeTabId,
                                  o.theme, o.darkMode)
       IN  /\ calculators' = o.calculators
           /\ activeTabId' = o.activeTabId
           /\ theme' = o.theme
           /\ darkMode' = o.darkMode
           /\ isCompact' = o.isCompact
           /\ isPinned' = o.isPinned
           /\ isInitialLoad' = loading
           /\ uncaught' = (uncaught \/ o.threw)
           /\ localStored' = IF o.rendered
                             THEN stateToSave(o.calculators, o.activeTabId, o.theme,
                                              o.isCompact, o.darkMode, o.isPinned)
                             ELSE localStored
           /\ timers' = e.timers
           /\ timeoutRef' = e.timeoutRef
    /\ phase' = "ready"
    /\ lastOp' = Stamp("loadSettings", 0,
                       [cloud |-> cloudStored,
                        local |-> readLocalSettings(localStored),
                        localCorrupt |-> localStored = CorruptJSON])
    /\ UNCHANGED <<history, historyStored, cloudStored, now, edits, sessionVars>>

(* Instances as an earlier session stored them *)
StoredArbitrage(id, text) ==
    Spread(getNewCalculator(id, 1, id), [openingExch1 |-> text])

StoredFunding(id, text) ==
    Spread(getNewFundingCalculator(id, 1), [positionSize |-> text])

(* An instance stored by a version that had neither variants nor logs *)
StoredLegacy(id) ==
    [id |-> id, name |-> NumberedName(CPrefix, 1),
     openingExch1 |-> <<"5">>, openingExch2 |-> <<>>,
     closingExch1 |-> <<>>, closingExch2 |-> <<>>]

(* What may be found under 'prisma-calc-state': whatever JSON is there *)
LocalSnapshots ==
    { NoSnapshot,
      Snapshot(<< StoredArbitrage(1, <<"5">>) >>, 1),
      Snapshot(<< StoredArbitrage(1, <<"5">>), StoredFunding(2, <<"5">>) >>, 2),
      Snapshot(<< StoredArbitrage(1, <<"5">>), StoredFunding(2, <<"5">>) >>, 3),
      [kind |-> "json", calculators |-> << StoredLegacy(2) >>],
      Snapshot(<< StoredArbitrage(1, <<"5">>), StoredArbitrage(1, <<"0">>) >>, 1),
      Snapshot(<<>>, 1),
      [kind |-> "json", activeTabId |-> 1],
      stateToSave(<< StoredArbitrage(1, <<"5">>) >>, 1, customTheme,
                  TRUE, TRUE, TRUE) }

(* What the remote API may return for the token *)
CloudSnapshots ==
    { NoSnapshot,
      Snapshot(<< StoredFunding(2, <<"0">>), StoredArbitrage(1, <<"0">>) >>, 1),
      Snapshot(<< StoredArbitrage(3, <<"0">>) >>, 3),
      Snapshot(<< StoredArbitrage(1, <<"0">>) >>, 2),
      Snapshot(<<>>, 1),
      [kind |-> "json"],
      cloudStateToSave(<< StoredArbitrage(1, <<"0">>) >>, 1, customTheme, TRUE) }

(* The mount: the default tab, and the load still to run *)
InitLoad ==
    /\ now = StartClock
    /\ calculators = << getNewCalculator(StartClock, 1, StartClock) >>
    /\ activeTabId = StartClock
    /\ history = <<>>
    /\ historyStored = HistoryJson(<<>>)
    /\ isInitialLoad = TRUE
    /\ theme = defaultTheme
    /\ darkMode = FALSE
    /\ isCompact = FALSE
    /\ isPinned = FALSE
    /\ timers = {}
    /\ timeoutRef = NoTimeout
    /\ phase = "loading"
    /\ uncaught = FALSE
    /\ InitSession
    /\ localStored \in LocalSnapshots
    /\ cloudStored \in CloudSnapshots
    /\ edits = 0
    /\ lastOp = [op |-> "mount", id |-> StartClock, arg |-> <<>>,
                 len |-> 0, act |-> 0, prev |-> "-"]

NextLoad ==
    \/ LoadSettings
    \/ Tick
    \/ AddArbitrageTab
    \/ \E id \in TabIds : RemoveTab(id)
    \/ \E id \in TabIds : SelectTab(id)

SpecLoad == InitLoad /\ [][NextLoad]_vars

NextLocalSave ==
    \/ LoadSettings
    \/ \E id \in TabIds : SelectTab(id)
    \/ \E newName \in RenameTexts : RenameTab(activeTabId, newName)
    \/ \E partialState \in CloudPartials : UpdateInstance(partialState)
    \/ ToggleDarkMode
    \/ \E content \in ThemeContents : ThemeUpdate(content)
    \/ ThemeReset
    \/ ToggleCompact
    \/ TogglePinned

(* The load and the changes of the six values the local snapshot holds,    *)
(* before the load has finished and after.                                 *)
SpecLocalSave == InitLoad /\ [][NextLocalSave]_vars

(* C2: in every reachable state, the state the load-time merge installs    *)
(* from whatever snapshots are stored included, activeTabId is the id of   *)
(* an instance of the collection and the collection is not empty.          *)
ActiveTabIsAMember ==
    /\ Len(calculators) >= 1
    /\ activeTabId \in TabIds

---------------------------------------------------------------------------
(* The capped lists: History and the log of a funding tab *)

(* The results the views hand to onAddToHistory: a percentage, and the     *)
(* zero values and the empty text that addToHistory turns away             *)
ResultTexts ==
    { <<"1", ".", "2", "5">>, <<"0", ".", "0", "0">>,
      <<"0", ".", "0", "0", "0", "0">>, <<>> }

ZeroResults ==
    { <<>>, <<"0", ".", "0", "0">>, <<"0", ".", "0", "0", "0", "0">> }

(* A funding tab with a position of 5 and a short rate of `rate` percent *)
FundedTab(rate) ==
    Spread(getNewFundingCalculator(StartClock, 1),
           [positionSize |-> <<"5">>, shortExchangeFR |-> rate])

(* The log that n clicks on "log period", one in each of the n             *)
(* milliseconds before StartClock, have left: the newest entry first.      *)
PastLog(n) ==
    LET entry(k, c) == [id        |-> StartClock - k,
                        timestamp |-> StartClock - k,
                        profit    |-> c.netProfitUSD,
                        rate      |-> c.netProfitRate]
    IN  CHOOSE log \in { [k \in 1..n |-> entry(k, c)] :
                            c \in {calculations(FundedTab(<<"5">>))} } : TRUE

(* The History that n saves in those milliseconds have left *)
PastHistory(n) ==
    [k \in 1..n |-> [id        |-> StartClock - k,
                     timestamp |-> StartClock - k,
                     type      |-> "Funding",
                     inputs    |-> <<>>,
                     result    |-> <<"1", ".", "2", "5">>,
                     tabName   |-> NumberedName(FRPrefix, 1)]]

(* What lastOp records of a list handler: len is the length of the list it *)
(* found.                                                                  *)
ListStamp(op, arg, len) ==
    [op |-> op, id |-> now, arg |-> arg, len |-> len,
     act |-> activeTabId, prev |-> "-"]

(* The "log period" button of FundingRateInstance *)
LogPeriod ==
    /\ activeCalculator.type = "funding"
    /\ calculations(activeCalculator).netProfitUSD.num # 0
    /\ edits < MaxInserts
    /\ edits' = edits + 1
    /\ LET partialState == [log |-> handleLogPeriod(activeCalculator, now)]
       IN  SetTabs(handleUpdateInstance(calculators, activeTabId, partialState),
                   activeTabId,
                   ListStamp("logPeriod", <<>>, Len(activeCalculator.log)))

(* The X of a log entry *)
RemoveLogEntry(id) ==
    /\ activeCalculator.type = "funding"
    /\ edits < MaxInserts
    /\ edits' = edits + 1
    /\ LET partialState == [log |-> handleRemoveLogEntry(activeCalculator.log, id)]
       IN  SetTabs(handleUpdateInstance(calculators, activeTabId, partialState),
                   activeTabId,
                   ListStamp("removeLogEntry", id, Len(activeCalculator.log)))

(* Installs the next History, and runs the history save effect. *)
SetHistory(next, stamp) ==
    /\ history' = next
    /\ phase \in {"loading", "ready"}
    /\ historyStored' = HistoryJson(next)
    /\ lastOp' = stamp
    /\ UNCHANGED <<calculators, activeTabId, isInitialLoad, localStored,
                   cloudStored, now>>
    /\ UNCHANGED <<prefVars, timerVars, mountVars, sessionVars>>

(* onAddToHistory(type, inputs, result, tabName), from a save button *)
AddToHistory(type, result) ==
    /\ activeCalculator.type # "undefined"
    /\ edits < MaxInserts
    /\ edits' = edits + 1
    /\ SetHistory(addToHistory(history, type, <<>>, result,
                               activeCalculator.name, now),
                  ListStamp("addToHistory", result, Len(history)))

DeleteHistory(id) ==
    /\ edits < MaxInserts
    /\ edits' = edits + 1
    /\ SetHistory(handleDeleteHistory(history, id),
                  ListStamp("deleteHistory", id, Len(history)))

ClearHistory ==
    /\ history # <<>>
    /\ SetHistory(<<>>, ListStamp("clearHistory", <<>>, Len(history)))
    /\ UNCHANGED edits

(* The ids of the newest and of the oldest entry of a list *)
EndIds(xs) == IF xs = <<>> THEN {} ELSE {xs[1].id, xs[Len(xs)].id}

ActiveLog == IF activeCalculator.type = "funding" THEN activeCalculator.log ELSE <<>>

(* One funding tab whose log, and a History, that earlier clicks have      *)
(* filled: empty, one short of the cap, or at the cap.                     *)
InitCaps ==
    /\ now = StartClock
    /\ \E rate \in {<<"5">>, <<>>} :
       \E n \in {0, LogCap - 1, LogCap} :
          calculators = << Spread(FundedTab(rate), [log |-> PastLog(n)]) >>
    /\ activeTabId = StartClock
    /\ \E n \in {0, HistoryCap - 1, HistoryCap} : history = PastHistory(n)
    /\ historyStored = HistoryJson(history)
    /\ isInitialLoad = FALSE
    /\ InitSettled
    /\ localStored = stateToSave(calculators, activeTabId,
                                 defaultTheme, FALSE, FALSE, FALSE)
    /\ cloudStored = NoSnapshot
    /\ edits = 0
    /\ lastOp = [op |-> "mount", id |-> StartClock, arg |-> <<>>,
                 len |-> 0, act |-> 0, prev |-> "-"]

NextCaps ==
    \/ Tick
    \/ LogPeriod
    \/ \E id \in EndIds(ActiveLog) : RemoveLogEntry(id)
    \/ \E result \in ResultTexts : AddToHistory("Funding", result)
    \/ \E id \in EndIds(history) : DeleteHistory(id)
    \/ ClearHistory

SpecCaps == InitCaps /\ [][NextCaps]_vars

(* The list after newEntry is put first into xs under the cap: when xs is  *)
(* full exactly its last entry is gone, the others follow in their order.  *)
PutFirstUnderCap(newEntry, xs, cap) ==
    <<newEntry>> \o (IF Len(xs) >= cap THEN SubSeq(xs, 1, cap - 1) ELSE xs)

(* C10: History never has more than 50 entries and the log of a funding    *)
(* tab never more than 100, after any number of insertions; an insertion   *)
(* puts the new entry first and, into a full list, discards exactly the    *)
(* last (oldest) entry and keeps the others in order.                      *)
ListsStayUnderTheirCaps ==
    /\ [](/\ Len(history) <= HistoryCap
          /\ \A k \in 1..Len(calculators) :
                calculators[k].type = "funding"
                    => Len(calculators[k].log) <= LogCap)
    /\ [][ /\ (Ran("addToHistory") /\ lastOp'.arg \notin ZeroResults)
              => /\ Len(history') >= 1
                 /\ history'[1].id = now
                 /\ history'[1].result = lastOp'.arg
                 /\ history' = PutFirstUnderCap(history'[1], history, HistoryCap)
           /\ Ran("logPeriod")
              => \A k \in 1..Len(calculators) :
                    calculators[k].id = activeTabId
                    => /\ Len(calculators'[k].log) >= 1
                       /\ calculators'[k].log[1].id = now
                       /\ calculators'[k].log =
                             PutFirstUnderCap(calculators'[k].log[1],
                                              calculators[k].log, LogCap) ]_vars

(* A save has just put an entry into a History that was full, and the log  *)
(* is at its cap with an entry logged in this session at its head.         *)
InsertedIntoFullLists ==
    /\ lastOp.op = "addToHistory"
    /\ lastOp.len = HistoryCap
    /\ lastOp.arg \notin ZeroResults
    /\ Len(history) = HistoryCap
    /\ history[1].id = lastOp.id
    /\ history[HistoryCap].id = StartClock - (HistoryCap - 1)
    /\ Len(ActiveLog) = LogCap
    /\ ActiveLog[1].id >= StartClock
    /\ ActiveLog[LogCap].id = StartClock - (LogCap - 1)

(* A fetch of the exchange rate sent at time t *)
RateRequest(t) == [kind |-> "rate", sent |-> t]

(* The mount effects of CryptoCalculator, in their order.  The load effect *)
(* calls loadSettings, which with a token waits for the remote read and    *)
(* without one runs to its end at once; then it reads the history with     *)
(* JSON.parse outside any try block and hands it to setHistory.  The save  *)
(* effects follow with the values of the first render: the local and the   *)
(* remote one return while isInitialLoad.current is true, the history one  *)
(* writes.  The last effect sends the first rate request.  The setters     *)
(* called take effect in the render that follows.  An error thrown in an   *)
(* effect with no error boundary above makes React unmount the tree, and   *)
(* the effects after it are not run.                                       *)
Mount ==
    /\ phase = "constructed"
    /\ LET o == loadOutcome(NoSnapshot, readLocalSettings(localStored))
           loading == token # NoToken
           timeout == newTimeout(cloudStateToSave(calculators, activeTabId,
                                                  theme, darkMode), now)
       IN  /\ isInitialLoad' = loading
           /\ IF historyStored = CorruptJSON
              THEN /\ phase' = "crashed"
                   /\ uncaught' = TRUE
                   /\ UNCHANGED <<historyStored, localStored, timerVars,
                                  requests, queued>>
              ELSE /\ phase' = "mounted"
                   /\ uncaught' = uncaught
                   /\ localStored' = localSaveEffectOf(loading, calculators,
                                         activeTabId, theme, isCompact,
                                         darkMode, isPinned)
                   /\ timers' = IF loading THEN timers
                                ELSE (timers \ {timeoutRef}) \cup {timeout}
                   /\ timeoutRef' = IF loading THEN timeoutRef ELSE timeout
                   /\ historyStored' = HistoryJson(history)
                   /\ requests' = requests \cup {RateRequest(now)}
                   /\ queued' = [history  |-> historyStored,
                                 settings |-> IF ~loading /\ o.rendered
                                              THEN o ELSE NoSnapshot]
    /\ lastOp' = Stamp("mount", now, [history |-> historyStored])
    /\ UNCHANGED <<calculators, activeTabId, history, cloudStored, now, edits,
                   prefVars, authVars, rateVars>>

(* The render after the mount effects, with the state their setters        *)
(* queued, and its effects: the history save, and after a load that has    *)
(* run the local and the remote save.                                      *)
Rerender ==
    /\ phase = "mounted"
    /\ LET q == queued.settings
           loaded == q # NoSnapshot
           calcs  == IF loaded THEN q.calculators ELSE calculators
           active == IF loaded THEN q.activeTabId ELSE activeTabId
           th     == IF loaded THEN q.theme ELSE theme
           dm     == IF loaded THEN q.darkMode ELSE darkMode
           ic     == IF loaded THEN q.isCompact ELSE isCompact
           ip     == IF loaded THEN q.isPinned ELSE isPinned
           e      == cloudSaveEffectOf(isInitialLoad, calcs, active, th, dm)
       IN  /\ calculators' = calcs
           /\ activeTabId' = active
           /\ theme' = th
           /\ darkMode' = dm
           /\ isCompact' = ic
           /\ isPinned' = ip
           /\ localStored' = IF loaded
                             THEN stateToSave(calcs, active, th, ic, dm, ip)
                             ELSE localStored
           /\ timers' = e.timers
           /\ timeoutRef' = e.timeoutRef
    /\ history' = IF queued.history = NoHistory THEN history
                                                ELSE queued.history.items
    /\ historyStored' = HistoryJson(history')
    /\ queued' = NothingQueued
    /\ phase' = IF isInitialLoad THEN "loading" ELSE "ready"
    /\ lastOp' = Stamp("render", now, queued)
    /\ UNCHANGED <<isInitialLoad, cloudStored, uncaught, now, edits,
                   authVars, rateVars, requests>>

---------------------------------------------------------------------------
(* The authentication state and the screen it selects                      *)

(* user?.plan === 'Premium' || user?.role === 'admin' *)
hasPermission(u) == u # NoUser /\ (u.plan = "Premium" \/ u.role = "admin")

(* AppContent: the screen rendered for an authentication state *)
AppContent(loading, authenticated, u) ==
    IF loading THEN "loader"
    ELSE IF ~authenticated THEN "login"
    ELSE IF ~hasPermission(u) THEN "gate"
    ELSE "calculator"

Screen == AppContent(isLoading, isAuthenticated, user)

(* The users the server knows *)
Users == { User("Premium", "user"), User("Free", "user"), User("Free", "admin") }

(* How many times a behaviour submits the login form *)
MaxLogins == 2

(* A fetch of the profile for token t, and a login, sent at time at *)
ProfileRequest(t, at) == [kind |-> "profile", token |-> t, sent |-> at]

LoginRequest(at) == [kind |-> "login", sent |-> at]

(* The cleanup of useDebouncedSave at unmount:                             *)
(* clearTimeout(timeoutRef.current)                                        *)
cleanupNothing(pending, ref) == pending

cleanup(pending, ref) == pending \ {ref}

(* Installs an authentication state and renders AppContent with it.  A    *)
(* CryptoCalculator that is no longer rendered is unmounted and its        *)
(* cleanups run; one that is rendered anew is constructed with its         *)
(* initial state; one that stays and sees another token runs its load      *)
(* effect again.  With no tree left nothing is rendered.                   *)
SetAuth(u, t, authenticated, loading, stored, reqs, stamp) ==
    LET before == phase \notin {"unmounted", "crashed"}
        after  == AppContent(loading, authenticated, u) = "calculator"
    IN  /\ phase # "crashed"
        /\ user' = u
        /\ token' = t
        /\ isAuthenticated' = authenticated
        /\ isLoading' = loading
        /\ tokenStored' = stored
        /\ requests' = reqs
        /\ lastOp' = stamp
        /\ IF before /\ ~after
           THEN /\ phase' = "unmounted"
                /\ timers' = cleanup(timers, timeoutRef)
                /\ queued' = NothingQueued
                /\ UNCHANGED <<calculators, activeTabId, history, isInitialLoad,
                               isCompact, isPinned, timeoutRef, rateVars>>
           ELSE IF ~before /\ after
           THEN /\ phase' = "constructed"
                /\ calculators' = << getNewCalculator(now, 1, now) >>
                /\ activeTabId' = now
                /\ history' = <<>>
                /\ isInitialLoad' = TRUE
                /\ isCompact' = FALSE
                /\ isPinned' = FALSE
                /\ timeoutRef' = NoTimeout
                /\ dollarRate' = NoRate
                /\ lastDollarUpdate' = NoDate
                /\ dollarLoading' = TRUE
                /\ queued' = NothingQueued
                /\ UNCHANGED timers
           ELSE /\ phase' = IF before /\ t # token /\ phase \in {"loading", "ready"}
                            THEN "loading" ELSE phase
                /\ UNCHANGED <<calculators, activeTabId, history, isInitialLoad,
                               isCompact, isPinned, timerVars, rateVars, queued>>
        /\ UNCHANGED <<localStored, historyStored, cloudStored, theme, darkMode,
                       uncaught, now>>

(* logout(), from the menu of the calculator or the subscription gate; the *)
(* token effect then runs validateToken without a token.  React runs the   *)
(* pending mount effects before it handles a click.                        *)
Logout ==
    /\ Screen \in {"calculator", "gate"}
    /\ phase # "constructed"
    /\ SetAuth(NoUser, NoToken, FALSE, FALSE, NoToken, requests,
               Stamp("logout", now, [token |-> token]))
    /\ UNCHANGED edits

(* login(username, password) from the login screen, up to its fetch *)
Login ==
    /\ Screen = "login"
    /\ edits < MaxLogins
    /\ edits' = edits + 1
    /\ SetAuth(user, token, isAuthenticated, TRUE, tokenStored,
               requests \cup {LoginRequest(now)},
               Stamp("login", now, <<>>))

(* The response to a login: accepted with a token and a user, rejected by  *)
(* the server, or a failed connection.  A token that differs from the      *)
(* current one makes the token effect validate it.                         *)
LoginResponse ==
    \E req \in {r \in requests : r.kind = "login"} :
        /\ UNCHANGED edits
        /\ \/ \E t \in Tokens, u \in Users :
                 SetAuth(u, t, TRUE, FALSE, t,
                         (requests \ {req}) \cup
                             (IF t # token THEN {ProfileRequest(t, now)} ELSE {}),
                         Stamp("loginResponse", req.sent,
                               [outcome |-> "ok", was |-> isAuthenticated]))
           \/ SetAuth(user, token, FALSE, FALSE, tokenStored, requests \ {req},
                      Stamp("loginResponse", req.sent,
                            [outcome |-> "rejected", was |-> isAuthenticated]))
           \/ SetAuth(user, token, isAuthenticated, FALSE, tokenStored,
                      requests \ {req},
                      Stamp("loginResponse", req.sent,
                            [outcome |-> "error", was |-> isAuthenticated]))

(* The response to the profile fetch of validateToken: the user, or a      *)
(* response that is not OK or a failed connection, which both call         *)
(* logout(); then setIsLoading(false).                                     *)
ValidateResponse ==
    \E req \in {r \in requests : r.kind = "profile"} :
        /\ UNCHANGED edits
        /\ \/ \E u \in Users :
                 SetAuth(u, token, TRUE, FALSE, tokenStored, requests \ {req},
                         Stamp("validateResponse", req.sent,
                               [outcome |-> "ok", token |-> req.token,
                                current |-> token]))
           \/ SetAuth(NoUser, NoToken, FALSE, FALSE, NoToken, requests \ {req},
                      Stamp("validateResponse", req.sent,
                            [outcome |-> "failed", token |-> req.token,
                             current |-> token]))

---------------------------------------------------------------------------
(* The exchange rate shown in the header                                   *)

(* The period of setInterval(fetchDollarRate, 300000), in milliseconds *)
PollInterval == 300000

(* How many periods of the interval a behaviour runs through *)
MaxPolls == 2

(* The texts a response may hold in data.USDBRL.bid *)
BidTexts == { <<"5">>, <<"2", ".", "5">>, <<"x">> }

(* CryptoCalculator is mounted and its effects have run *)
Mounted == phase \in {"mounted", "loading", "ready"}

(* fetchDollarRate up to its fetch: setDollarLoading(true) *)
StartRateFetch(op) ==
    /\ Mounted
    /\ RateRequest(now') \notin requests
    /\ dollarLoading' = TRUE
    /\ requests' = requests \cup {RateRequest(now')}
    /\ lastOp' = Stamp(op, now', [inFlight |-> requests])
    /\ UNCHANGED <<calculators, activeTabId, history, isInitialLoad,
                   localStored, historyStored, cloudStored,
                   dollarRate, lastDollarUpdate, queued,
                   prefVars, timerVars, mountVars, authVars>>

(* The interval set at the mount, at StartClock, fires: its next multiple  *)
(* of the period has come.                                                 *)
PollTick ==
    /\ now' = StartClock
              + ((now - StartClock) \div PollInterval + 1) * PollInterval
    /\ now' <= StartClock + MaxPolls * PollInterval
    /\ StartRateFetch("poll")
    /\ UNCHANGED edits

(* The refresh button of the header, which is disabled while dollarLoading *)
RefreshRate ==
    /\ ~dollarLoading
    /\ edits < MaxEdits
    /\ edits' = edits + 1
    /\ now' = now
    /\ StartRateFetch("refresh")

(* Time passes, a millisecond, in the first milliseconds of a period *)
RateTick ==
    /\ (now - StartClock) % PollInterval < MaxClock
    /\ now' = now + 1
    /\ UNCHANGED <<calculators, activeTabId, history, isInitialLoad,
                   localStored, historyStored, cloudStored, edits, lastOp>>
    /\ UNCHANGED <<prefVars, timerVars, mountVars, sessionVars>>

(* fetchDollarRate after its fetch, without the reset of the flag in       *)
(* `finally`                                                               *)
rateResponseNoFinally(outcome, rate, updated, loading, t) ==
    IF outcome.kind = "ok"
    THEN [dollarRate |-> parseFloat(outcome.bid), lastDollarUpdate |-> t,
          dollarLoading |-> loading]
    ELSE [dollarRate |-> rate, lastDollarUpdate |-> updated,
          dollarLoading |-> loading]

(* fetchDollarRate after its fetch, in a component that holds rate,        *)
(* updated and loading, at time t: an OK response with a bid sets the rate *)
(* and the time; a response that is not OK does nothing; a failed          *)
(* connection or a body without USDBRL.bid throws into the catch, which    *)
(* logs; `finally` resets the flag.                                        *)
rateResponse(outcome, rate, updated, loading, t) ==
    IF outcome.kind = "ok"
    THEN [dollarRate |-> parseFloat(outcome.bid), lastDollarUpdate |-> t,
          dollarLoading |-> FALSE]
    ELSE [dollarRate |-> rate, lastDollarUpdate |-> updated,
          dollarLoading |-> FALSE]

RateOutcomes ==
    { [kind |-> "ok", bid |-> bid] : bid \in BidTexts }
    \cup { [kind |-> "notOk"], [kind |-> "error"], [kind |-> "malformed"] }

(* A rate request completes; the setters of an unmounted component do      *)
(* nothing.                                                                *)
RateResponse ==
    \E req \in {r \in requests : r.kind = "rate"}, outcome \in RateOutcomes :
        LET r == rateResponse(outcome, dollarRate, lastDollarUpdate,
                              dollarLoading, now)
        IN  /\ requests' = requests \ {req}
            /\ IF Mounted
               THEN /\ dollarRate' = r.dollarRate
                    /\ lastDollarUpdate' = r.lastDollarUpdate
                    /\ dollarLoading' = r.dollarLoading
               ELSE UNCHANGED rateVars
            /\ lastOp' = Stamp("rateResponse", req.sent,
                               [outcome |-> outcome, inFlight |-> requests])
            /\ UNCHANGED <<calculators, activeTabId, history, isInitialLoad,
                           localStored, historyStored, cloudStored, edits,
                           now, queued, prefVars, timerVars, mountVars, authVars>>

(* A session right after its mount effects: the first rate request is in   *)
(* flight.                                                                 *)
InitRate ==
    /\ now = StartClock
    /\ calculators = << getNewCalculator(StartClock, 1, StartClock) >>
    /\ activeTabId = StartClock
    /\ history = <<>>
    /\ historyStored = HistoryJson(<<>>)
    /\ isInitialLoad = FALSE
    /\ theme = defaultTheme
    /\ darkMode = FALSE
    /\ isCompact = FALSE
    /\ isPinned = FALSE
    /\ timers = {}
    /\ timeoutRef = NoTimeout
    /\ phase = "ready"
    /\ uncaught = FALSE
    /\ user = User("Premium", "user")
    /\ token = "t1"
    /\ tokenStored = "t1"
    /\ isAuthenticated = TRUE
    /\ isLoading = FALSE
    /\ requests = {RateRequest(StartClock)}
    /\ dollarRate = NoRate
    /\ lastDollarUpdate = NoDate
    /\ dollarLoading = TRUE
    /\ queued = NothingQueued
    /\ localStored = NoSnapshot
    /\ cloudStored = NoSnapshot
    /\ edits = 0
    /\ lastOp = [op |-> "mount", id |-> StartClock, arg |-> <<>>,
                 len |-> 0, act |-> 0, prev |-> "-"]

NextRate ==
    \/ PollTick
    \/ RefreshRate
    \/ RateTick
    \/ RateResponse

(* The polling of the exchange rate *)
SpecRate == InitRate /\ [][NextRate]_vars

(* The start of the application, after the mount effect of AuthProvider:  *)
(* with a stored token its validation is in flight and the loader is       *)
(* shown; without one the login screen is.  CryptoCalculator is not        *)
(* rendered; the variables of its state hold no value of the program until *)
(* it is constructed.                                                      *)
InitAuth ==
    /\ now = StartClock
    /\ tokenStored \in {NoToken, "t1"}
    /\ token = tokenStored
    /\ user = NoUser
    /\ isAuthenticated = FALSE
    /\ isLoading = (token # NoToken)
    /\ requests = IF token # NoToken THEN {ProfileRequest(token, StartClock)}
                                     ELSE {}
    /\ phase = "unmounted"
    /\ calculators = << getNewCalculator(0, 0, 0) >>
    /\ activeTabId = 0
    /\ history = <<>>
    /\ isInitialLoad = TRUE
    /\ theme = defaultTheme
    /\ darkMode = FALSE
    /\ isCompact = FALSE
    /\ isPinned = FALSE
    /\ timers = {}
    /\ timeoutRef = NoTimeout
    /\ uncaught = FALSE
    /\ dollarRate = NoRate
    /\ lastDollarUpdate = NoDate
    /\ dollarLoading = TRUE
    /\ queued = NothingQueued
    /\ localStored \in {NoSnapshot,
                        stateToSave(<< StoredArbitrage(1, <<"5">>) >>, 1,
                                    customTheme, TRUE, TRUE, TRUE)}
    /\ cloudStored \in {NoSnapshot,
                        cloudStateToSave(<< StoredArbitrage(1, <<"0">>) >>, 1,
                                         customTheme, TRUE)}
    /\ historyStored \in {NoHistory, HistoryJson(PastHistory(1))}
    /\ edits = 0
    /\ lastOp = [op |-> "start", id |-> StartClock, arg |-> <<>>,
                 len |-> 0, act |-> 0, prev |-> "-"]

NextAuth ==
    \/ Tick
    \/ Login
    \/ LoginResponse
    \/ ValidateResponse
    \/ Logout
    \/ Mount
    \/ Rerender
    \/ LoadSettings

(* The sessions of the application: logins, validations, logouts and the   *)
(* mounts of CryptoCalculator they cause                                   *)
SpecAuth == InitAuth /\ [][NextAuth]_vars

NextTeardown ==
    \/ Tick
    \/ \E d \in {DebounceDelay - 1, DebounceDelay} : Wait(d)
    \/ \E text \in RenameTexts : RenameTab(activeTabId, text)
    \/ TogglePinned
    \/ RemoteWrite
    \/ Logout

(* A session with a remote save pending, which the user may leave *)
SpecTeardown == InitCloud /\ [][NextTeardown]_vars

(* A session of a logged-in user a debounce delay after its last change:   *)
(* two tabs made by an earlier session, the remote write of that change    *)
(* done, so that the local and the remote snapshot hold the same tabs.     *)
InitRestart ==
    /\ InitSettled
    /\ now = StartClock + DebounceDelay
    /\ calculators = << StoredArbitrage(1, <<"5">>), StoredFunding(2, <<"5">>) >>
    /\ activeTabId = 1
    /\ history = <<>>
    /\ historyStored = HistoryJson(<<>>)
    /\ isInitialLoad = FALSE
    /\ localStored = stateToSave(calculators, activeTabId, theme,
                                 isCompact, darkMode, isPinned)
    /\ cloudStored = cloudStateToSave(calculators, activeTabId, theme, darkMode)
    /\ edits = 0
    /\ lastOp = [op |-> "remoteWrite", id |-> now, arg |-> cloudStored,
                 len |-> 2, act |-> 1, prev |-> "-"]

NextRestart ==
    \/ \E d \in {DebounceDelay - 1, DebounceDelay} : Wait(d)
    \/ edits = 0 /\ AddArbitrageTab
    \/ edits = 0 /\ \E id \in TabIds : RemoveTab(id)
    \/ RemoteWrite
    \/ Logout
    \/ edits = 0 /\ Login
    \/ LoginResponse
    \/ ValidateResponse
    \/ Mount
    \/ Rerender
    \/ LoadSettings

(* A session that changes its tabs and ends, and the session of the next   *)
(* login, which leaves the tabs as it loads them                           *)
SpecRestart == InitRestart /\ [][NextRestart]_vars

(* The first render, with whatever the stores hold *)
InitMount ==
    /\ now = StartClock
    /\ calculators = << getNewCalculator(StartClock, 1, StartClock) >>
    /\ activeTabId = StartClock
    /\ history = <<>>
    /\ historyStored \in {NoHistory, HistoryJson(<<>>),
                          HistoryJson(PastHistory(1)), CorruptJSON}
    /\ isInitialLoad = TRUE
    /\ theme = defaultTheme
    /\ darkMode = FALSE
    /\ isCompact = FALSE
    /\ isPinned = FALSE
    /\ timers = {}
    /\ timeoutRef = NoTimeout
    /\ phase = "constructed"
    /\ uncaught = FALSE
    /\ InitSession
    /\ localStored \in LocalSnapshots \cup {CorruptJSON}
    /\ cloudStored \in CloudSnapshots
    /\ edits = 0
    /\ lastOp = [op |-> "render", id |-> StartClock, arg |-> <<>>,
                 len |-> 0, act |-> 0, prev |-> "-"]

NextMount ==
    \/ Mount
    \/ Rerender
    \/ LoadSettings
    \/ Tick
    \/ AddArbitrageTab
    \/ \E id \in TabIds : SelectTab(id)
    \/ TogglePinned

(* The startup from the stores, and the first changes after it *)
SpecMount == InitMount /\ [][NextMount]_vars

(* The fields of the two default states besides id, name and type *)
ArbitrageTemplate ==
    {"openingExch1", "openingExch2", "closingExch1", "closingExch2",
     "totalCoins", "purchases", "showAverage"}

FundingTemplate ==
    {"positionSize", "leverage", "fundingInterval", "shortExchangeName",
     "shortExchangeFR", "longExchangeName", "longExchangeFR", "log"}

(* An instance of each variant with a value in every field that is not the *)
(* default one                                                             *)
FilledArbitrage ==
    [ id           |-> 1,
      type         |-> "arbitrage",
      name         |-> <<"x">>,
      openingExch1 |-> <<"5">>,
      openingExch2 |-> <<"3">>,
      closingExch1 |-> <<"0">>,
      closingExch2 |-> <<"5">>,
      totalCoins   |-> <<"3">>,
      purchases    |-> << [value |-> <<"5">>, id |-> PurchaseId(0, 0)],
                          [value |-> <<>>, id |-> PurchaseId(0, 1)] >>,
      showAverage  |-> TRUE ]

FilledFunding ==
    [ id                |-> 1,
      type              |-> "funding",
      name              |-> <<"x">>,
      positionSize      |-> <<"5">>,
      leverage          |-> <<"3">>,
      fundingInterval   |-> <<"5">>,
      shortExchangeName |-> <<"x">>,
      shortExchangeFR   |-> <<"5">>,
      longExchangeName  |-> <<"C", " ", "1">>,
      longExchangeFR    |-> <<"3">>,
      log               |-> PastLog(1) ]

(* The object with the fields F of calc *)
Restrict(calc, F) == [f \in F |-> calc[f]]

(* What an earlier version of the program may have stored of an instance:  *)
(* any subset of the fields of its variant, an arbitrage instance with or  *)
(* without its type.                                                       *)
PersistedInstances ==
    { Restrict(FilledArbitrage, {"id", "name"} \cup T \cup F) :
          T \in {{}, {"type"}}, F \in SUBSET ArbitrageTemplate }
    \cup { Restrict(FilledFunding, {"id", "name", "type"} \cup F) :
               F \in SUBSET FundingTemplate }

(* The mount with one such instance stored, locally or remotely *)
InitMigrate ==
    /\ now = StartClock
    /\ calculators = << getNewCalculator(StartClock, 1, StartClock) >>
    /\ activeTabId = StartClock
    /\ history = <<>>
    /\ historyStored = HistoryJson(<<>>)
    /\ isInitialLoad = TRUE
    /\ theme = defaultTheme
    /\ darkMode = FALSE
    /\ isCompact = FALSE
    /\ isPinned = FALSE
    /\ timers = {}
    /\ timeoutRef = NoTimeout
    /\ phase = "loading"
    /\ uncaught = FALSE
    /\ InitSession
    /\ \E calc \in PersistedInstances :
          \/ /\ localStored = Snapshot(<<calc>>, calc.id)
             /\ cloudStored = NoSnapshot
          \/ /\ localStored = NoSnapshot
             /\ cloudStored = Snapshot(<<calc>>, calc.id)
    /\ edits = 0
    /\ lastOp = [op |-> "mount", id |-> StartClock, arg |-> <<>>,
                 len |-> 0, act |-> 0, prev |-> "-"]

NextMigrate ==
    \/ LoadSettings
    \/ Tick

(* The load of a snapshot of an earlier version *)
SpecMigrate == InitMigrate /\ [][NextMigrate]_vars

---------------------------------------------------------------------------
(* Properties of the load *)

(* The result r of overlaying the local instances on the remote instance   *)
(* c: a local instance of the id gives every field it has, c the others.   *)
OverlaidBy(r, c, localCalcs) ==
    LET matches == {j \in 1..Len(localCalcs) : localCalcs[j].id = c.id}
    IN  IF matches = {}
        THEN \A f \in DOMAIN c : r[f] = c[f]
        ELSE \E j \in matches :
                /\ \A f \in DOMAIN localCalcs[j] : r[f] = localCalcs[j][f]
                /\ \A f \in DOMAIN c \ DOMAIN localCalcs[j] : r[f] = c[f]

(* The list after the load is the remote list, id by id and in its order,  *)
(* with the local instances laid over it.                                  *)
RemoteShapeLocalValues ==
    /\ Len(calculators') = Len(cloudStored.calculators)
    /\ \A k \in 1..Len(cloudStored.calculators) :
          /\ calculators'[k].id = cloudStored.calculators[k].id
          /\ OverlaidBy(calculators'[k], cloudStored.calculators[k],
                        localStored.calculators)

Save(op, h) ==
    /\ edits < MaxInserts
    /\ edits' = edits + 1
    /\ SetHistory(IF h.call
                  THEN addToHistory(history, h.type, h.inputs, h.result,
                                    activeCalculator.name, now)
                  ELSE history,
                  [op |-> op, id |-> now, arg |-> h, len |-> Len(history),
                   act |-> activeTabId, prev |-> "-"])

(* The full view of an arbitrage tab is the one rendered *)
FullViewShown == activeCalculator.type = "arbitrage" /\ ~isCompact

SaveOpening ==
    /\ FullViewShown
    /\ Save("saveOpening", handleSaveOpening(activeCalculator))

SaveClosing ==
    /\ FullViewShown
    /\ Save("saveClosing", handleSaveClosing(activeCalculator))

SaveAverage ==
    /\ FullViewShown
    /\ activeCalculator.showAverage
    /\ Save("saveAverage", handleSaveAverage(activeCalculator))

SaveToHistory ==
    /\ activeCalculator.type = "funding"
    /\ Save("saveToHistory", handleSaveToHistory(activeCalculator))

(* The fields are number inputs, which hand over "" or the text of a       *)
(* number; any other text ("x") reaches a field from a stored snapshot.    *)
(* Texts of the price fields                                               *)
PriceTexts ==
    { <<>>, <<"x">>, <<"0">>, <<"5">>, <<"3">>, <<"-", "5">>,
      <<"2", ".", "5">>, <<"2", ".", "9", "9", "9", "9">> }

(* Texts of the total of coins and of the purchase values *)
CoinTexts == { <<>>, <<"x">>, <<"0">>, <<"2">>, <<"3">>, <<"-", "2">> }

ValueTexts == { <<>>, <<"x">>, <<"0">>, <<"5">>, <<"-", "5">> }

(* Texts of the fields of a funding tab *)
PositionTexts == { <<"x">>, <<"0">>, <<"5">>, <<"-", "5">> }

LeverageTexts == { <<>>, <<"x">>, <<"0">>, <<"2">>, <<"-", "2">> }

IntervalTexts == { <<>>, <<"0">>, <<"8">>, <<"-", "8">> }

RateTexts == { <<>>, <<"5">>, <<"-", "5">>, <<"3">> }

(* The purchase lists of one or two entries with these values *)
PurchaseLists ==
    { << [value |-> v, id |-> PurchaseId(StartClock, 0)] >> : v \in ValueTexts }
    \cup { << [value |-> v, id |-> PurchaseId(StartClock, 0)],
              [value |-> w, id |-> PurchaseId(StartClock, 1)] >> :
           v \in ValueTexts, w \in ValueTexts }

(* The first tab with its fields typed in: prices (the closing pair is the *)
(* opening pair the other way round), or coins and purchases with the      *)
(* average panel open, or the fields of a funding tab in its place.        *)
CalcTabs ==
    { Spread(getNewCalculator(StartClock, 1, StartClock),
             [openingExch1 |-> a, openingExch2 |-> b,
              closingExch1 |-> b, closingExch2 |-> a]) :
        a \in PriceTexts, b \in PriceTexts }
    \cup
    { Spread(getNewCalculator(StartClock, 1, StartClock),
             [totalCoins |-> c, purchases |-> ps, showAverage |-> TRUE]) :
        c \in CoinTexts, ps \in PurchaseLists }
    \cup
    { Spread(getNewFundingCalculator(StartClock, 1),
             [positionSize |-> p, leverage |-> l, fundingInterval |-> i,
              shortExchangeFR |-> rA, longExchangeFR |-> rB]) :
        p \in PositionTexts, l \in LeverageTexts, i \in IntervalTexts,
        rA \in RateTexts, rB \in RateTexts \ {<<"-", "5">>} }

InitCalc ==
    /\ now = StartClock
    /\ calculators \in { <<calc>> : calc \in CalcTabs }
    /\ activeTabId = StartClock
    /\ history = <<>>
    /\ historyStored = HistoryJson(<<>>)
    /\ isInitialLoad = FALSE
    /\ InitSettled
    /\ localStored = stateToSave(calculators, activeTabId,
                                 defaultTheme, FALSE, FALSE, FALSE)
    /\ cloudStored = NoSnapshot
    /\ edits = 0
    /\ lastOp = [op |-> "mount", id |-> StartClock, arg |-> <<>>,
                 len |-> 0, act |-> 0, prev |-> "-"]

NextCalc ==
    \/ Tick
    \/ ToggleCompact
    \/ SaveOpening
    \/ SaveClosing
    \/ SaveAverage
    \/ SaveToHistory

(* The views of one tab over the texts typed into its fields *)
SpecCalc == InitCalc /\ [][NextCalc]_vars

(***************************************************************************)
(* Properties of the remote save                                           *)
(***************************************************************************)

(* The list of (id, name, type) of the calculators *)
Shape(calcs) ==
    [k \in 1..Len(calcs) |-> <<calcs[k].id, calcs[k].name, calcs[k].type>>]

(* The step changes what the remote save watches. *)
QualifyingChange ==
    \/ Shape(calculators') # Shape(calculators)
    \/ activeTabId' # activeTabId
    \/ theme' # theme
    \/ darkMode' # darkMode

(* The payload a remote save set now would carry *)
CurrentPayload == cloudStateToSave(calculators, activeTabId, theme, darkMode)

(* The payload was captured with what the remote save watches as it is now *)
CapturedSinceLastChange(payload) ==
    /\ Shape(payload.calculators) = Shape(calculators)
    /\ payload.activeTabId = activeTabId
    /\ payload.theme = theme.content
    /\ payload.darkMode = darkMode

AtMostOneTimeout ==
    /\ Cardinality(timers) <= 1
    /\ \A timeout \in timers :
         /\ timeout = timeoutRef
         /\ CapturedSinceLastChange(timeout.payload)

ChangeRestartsTimeout ==
    (QualifyingChange /\ ~isInitialLoad')
        => /\ timers' = {newTimeout(CurrentPayload', now)}
           /\ timeoutRef' \in timers'

WriteAfterQuietPeriod ==
    Ran("remoteWrite")
        => \E timeout \in timers :
             /\ timers = {timeout}
             /\ timers' = {}
             /\ now >= timeout.due
             /\ lastOp'.arg = timeout.payload
             /\ CapturedSinceLastChange(timeout.payload)
             /\ cloudStored' \in {cloudStored, timeout.payload}

(* C12: the remote save is debounced.  Every qualifying change leaves      *)
(* exactly one timeout pending, set at that change for two seconds later   *)
(* with the payload of that change, so at most one is pending at any time; *)
(* a remote write happens only when a timeout is due, two seconds or more  *)
(* after the last qualifying change, it carries the payload of that last   *)
(* change, and it leaves no timeout pending: a burst of changes less than  *)
(* two seconds apart ends in one write.                                    *)
DebounceCoalescesBursts ==
    /\ []AtMostOneTimeout
    /\ [][ChangeRestartsTimeout /\ WriteAfterQuietPeriod]_vars

(* A burst written once: the tab added at the start, a toggle of the dark  *)
(* mode and a selection of the first tab less than two seconds later, and  *)
(* then one write, stored, carrying all three; no write can have come      *)
(* before it, since its timeout was set before the one of the added tab,   *)
(* whose id is the time it was added at, was due.                          *)
BurstWrittenOnce ==
    /\ lastOp.op = "remoteWrite"
    /\ lastOp.id > MaxClock + DebounceDelay
    /\ lastOp.id - DebounceDelay
           < lastOp.arg.calculators[Len(lastOp.arg.calculators)].id + DebounceDelay
    /\ lastOp.arg.darkMode
    /\ lastOp.arg.activeTabId = StartClock
    /\ Len(lastOp.arg.calculators) > 1
    /\ lastOp.arg.calculators[Len(lastOp.arg.calculators)].id # StartClock
    /\ cloudStored = lastOp.arg
    /\ timers = {}

(* C13: only a change of the list of (id, name, type), of activeTabId, of  *)
(* theme or of darkMode sets or restarts the timeout of the remote save; a *)
(* step that edits other fields of an instance, or compact or pinned,      *)
(* leaves the pending timeout as it is.                                    *)
OnlyFingerprintChangesSchedule ==
    [][ ((timers' # timers \/ timeoutRef' # timeoutRef) /\ ~Ran("remoteWrite"))
            => QualifyingChange ]_vars

(* A field of the active instance was edited while a remote save was       *)
(* pending: the timeout is the one set before, and its payload lacks the   *)
(* edit.                                                                   *)
EditedUnderPendingTimeout ==
    /\ lastOp.op = "updateInstance"
    /\ timers = {timeoutRef}
    /\ timeoutRef.due < now + DebounceDelay
    /\ timeoutRef.payload.calculators # calculators
    /\ Shape(timeoutRef.payload.calculators) = Shape(calculators)

(***************************************************************************)
(* Properties of the local save                                            *)
(***************************************************************************)

(* The six values the local snapshot holds, as they are in memory *)
InMemorySnapshot ==
    stateToSave(calculators, activeTabId, theme, isCompact, darkMode, isPinned)

SixValuesChange ==
    <<calculators, activeTabId, theme, isCompact, darkMode, isPinned>>'
        # <<calculators, activeTabId, theme, isCompact, darkMode, isPinned>>

(* C14: once the load has finished, every step that changes calculators,   *)
(* activeTabId, theme, isCompact, darkMode or isPinned leaves under the     *)
(* local settings key the snapshot of the six values as they are after the *)
(* step.                                                                   *)
LocalSnapshotFollowsEveryChange ==
    [][ (SixValuesChange /\ ~isInitialLoad') => localStored' = InMemorySnapshot' ]_vars

(* After a load from stored snapshots the user pinned the window and the   *)
(* stored snapshot holds that, with the tabs and the theme of the load.    *)
PinnedAfterLoadIsStored ==
    /\ lastOp.op = "setIsPinned"
    /\ ~isInitialLoad
    /\ isPinned
    /\ theme.parsed
    /\ cloudStored # NoSnapshot
    /\ localStored = InMemorySnapshot

(***************************************************************************)
(* Properties of the calculations                                          *)
(***************************************************************************)

ZeroPercent == <<"0", ".", "0", "0">>

ZeroPrice == <<"0", ".", "0", "0", "0", "0">>

IsPositive(x) == ~x.nan /\ x.num > 0

(* The result the save button `op` of the view of calc would store, and    *)
(* whether the claim lets it be stored.                                    *)
ResultOf(op, calc) ==
    CASE op = "saveOpening" -> calculateDifference(calc.openingExch1, calc.openingExch2)
      [] op = "saveClosing" -> calculateDifference(calc.closingExch1, calc.closingExch2)
      [] op = "saveAverage" -> averagePrice(calc)
      [] OTHER              -> handleSaveToHistory(calc).result

Eligible(op, calc) ==
    CASE op = "saveOpening" ->
            /\ ResultOf(op, calc) # ZeroPercent
            /\ calc.openingExch1 # <<>>
            /\ calc.openingExch2 # <<>>
      [] op = "saveClosing" ->
            /\ ResultOf(op, calc) # ZeroPercent
            /\ calc.closingExch1 # <<>>
            /\ calc.closingExch2 # <<>>
      [] op = "saveAverage" ->
            /\ ResultOf(op, calc) # ZeroPrice
            /\ IsPositive(parseFloat(calc.totalCoins))
            /\ IsPositive(totalPurchases(calc.purchases))
      [] OTHER ->
            calculations(calc).netProfitUSD.num # 0

SaveOps == {"saveOpening", "saveClosing", "saveAverage", "saveToHistory"}

(* C15: a save button puts an entry into History, first and with the       *)
(* result of its view, exactly when the result is not the zero value and   *)
(* the inputs are there: for opening and closing the result is not "0.00"  *)
(* and both prices are non-empty; for the average the result is not        *)
(* "0.0000", the coins and the purchase sum are positive; for funding the  *)
(* net profit of a period is not 0.  Otherwise History stays as it was.    *)
SavesOnlyNonZeroResults ==
    [][ \A op \in SaveOps :
          Ran(op) =>
             IF Eligible(op, activeCalculator)
             THEN /\ Len(history') = Len(history) + 1
                  /\ history'[1].result = ResultOf(op, activeCalculator)
                  /\ history'[1].tabName = activeCalculator.name
                  /\ SubSeq(history', 2, Len(history')) = history
             ELSE history' = history ]_vars

(* The closing difference was stored on top of the opening difference of   *)
(* the same tab, the two being different figures.                          *)
OpeningAndClosingSaved ==
    /\ lastOp.op = "saveClosing"
    /\ Len(history) = 2
    /\ history[1].type = "Fechamento"
    /\ history[2].type = "Abertura"
    /\ history[1].result # history[2].result
    /\ history[1].result = calculateDifference(activeCalculator.closingExch1,
                                               activeCalculator.closingExch2)

Abs(n) == IF n < 0 THEN 0 - n ELSE n

(* The text is a decimal with exactly `digits` decimals, of the sign of x  *)
(* or unsigned, that lies within half a unit of its last decimal of x, and *)
(* on the side away from zero when x is exactly half way.                  *)
IsRounded(text, x, digits) ==
    LET signed == Len(text) >= 1 /\ text[1] = "-"
        p      == parseFloat(text)
        d      == FracSub(Frac(p.num, p.den), x)
    IN  /\ ~p.nan
        /\ Len(text) > digits + 1
        /\ text[Len(text) - digits] = "."
        /\ \A k \in 1..Len(text) :
              \/ IsDigit(text[k])
              \/ k = Len(text) - digits
              \/ (k = 1 /\ signed)
        /\ signed <=> x.num < 0
        /\ 2 * Pow10(digits) * Abs(d.num) <= d.den
        /\ (2 * Pow10(digits) * Abs(d.num) = d.den)
              => Abs(p.num) * x.den > Abs(x.num) * p.den

(* ((a - b) / b) * 100 for numbers a and b, b not 0 *)
PercentageDifference(a, b) ==
    FracMul(FracDiv(FracSub(a, b), b), Frac(100, 1))

DifferenceIsRight(val1, val2) ==
    LET a     == parseFloat(val1)
        b     == parseFloat(val2)
        shown == calculateDifference(val1, val2)
    IN  /\ IF a.nan \/ b.nan \/ b.num = 0
           THEN shown = ZeroPercent
           ELSE IsRounded(shown, PercentageDifference(a, b), 2)
        /\ compactCalculateDifference(val1, val2) = shown

(* C16: for every pair of texts in the price fields of a tab, the          *)
(* difference the view shows is ((a - b) / b) * 100 rounded to two         *)
(* decimals when both parse and b is not 0, and "0.00" otherwise, and the  *)
(* compact view shows the same text as the full view.                      *)
PercentageDifferenceRounded ==
    \A k \in 1..Len(calculators) :
        calculators[k].type = "arbitrage"
            => /\ DifferenceIsRight(calculators[k].openingExch1,
                                    calculators[k].openingExch2)
               /\ DifferenceIsRight(calculators[k].closingExch1,
                                    calculators[k].closingExch2)

(* The view was switched to the compact one over a difference that does   *)
(* not end after two decimals and is rounded up, and a negative one.       *)
RoundedUpDifferenceShown ==
    /\ lastOp.op = "setIsCompact"
    /\ isCompact
    /\ activeCalculator.type = "arbitrage"
    /\ compactCalculateDifference(activeCalculator.openingExch1,
                                  activeCalculator.openingExch2)
           = <<"6", "6", ".", "6", "7">>
    /\ compactCalculateDifference(activeCalculator.closingExch1,
                                  activeCalculator.closingExch2)
           = <<"-", "4", "0", ".", "0", "0">>

RECURSIVE PurchaseSum(_)
(* The sum of the purchase values, a value that is empty or does not parse *)
(* counted as 0                                                            *)
PurchaseSum(purchases) ==
    IF Len(purchases) = 0 THEN Frac(0, 1)
    ELSE LET x    == OrZero(parseFloat(purchases[Len(purchases)].value))
             rest == PurchaseSum(SubSeq(purchases, 1, Len(purchases) - 1))
         IN  Frac(rest.num * x.den + x.num * rest.den, rest.den * x.den)

(* C17: the average price shown is the purchase sum, values that are empty *)
(* or do not parse counted as 0, divided by the total of coins when both   *)
(* are positive, and "0.0000" whenever the total of coins is zero,         *)
(* negative or unparseable or the sum is zero or negative.                 *)
AveragePriceAsClaimed ==
    \A k \in 1..Len(calculators) :
        calculators[k].type = "arbitrage"
            => LET coins == parseFloat(calculators[k].totalCoins)
                   sum   == PurchaseSum(calculators[k].purchases)
                   shown == averagePrice(calculators[k])
               IN  IF IsPositive(coins) /\ sum.num > 0
                   THEN IsRounded(shown, FracDiv(sum, coins), 4)
                   ELSE shown = ZeroPrice

(* Two fractions are the same number *)
SameNumber(a, b) == a.num * b.den = b.num * a.den

(* C18: the margin of a funding tab is positionSize / leverage when both   *)
(* are positive and 0 in every other case (leverage empty, unparseable,    *)
(* zero or negative; positionSize zero or negative), and the APY on margin *)
(* is (annualProfit / margin) * 100 when the margin is positive and 0      *)
(* otherwise.                                                              *)
MarginAsClaimed ==
    \A k \in 1..Len(calculators) :
        calculators[k].type = "funding"
            => LET posSize == parseFloat(calculators[k].positionSize)
                   lev     == parseFloat(calculators[k].leverage)
                   c       == calculations(calculators[k])
               IN  /\ SameNumber(c.margin,
                                 IF IsPositive(posSize) /\ IsPositive(lev)
                                 THEN FracDiv(posSize, lev)
                                 ELSE Frac(0, 1))
                   /\ SameNumber(c.apy,
                                 IF c.margin.num > 0
                                 THEN FracMul(FracDiv(c.annualProfitUSD, c.margin),
                                              Frac(100, 1))
                                 ELSE Frac(0, 1))

(* The number a rate or an interval field counts as: 0 when it does not    *)
(* parse                                                                   *)
CountedAs(x) == IF x.nan THEN Frac(0, 1) ELSE Frac(x.num, x.den)

ProjectionIsRight(calc) ==
    LET posSize  == parseFloat(calc.positionSize)
        interval == parseFloat(calc.fundingInterval)
        netRate  == FracSub(FracDiv(CountedAs(parseFloat(calc.shortExchangeFR)),
                                    Frac(100, 1)),
                            FracDiv(CountedAs(parseFloat(calc.longExchangeFR)),
                                    Frac(100, 1)))
        period   == FracMul(Frac(posSize.num, posSize.den), netRate)
        daily    == IF IsPositive(interval)
                    THEN FracMul(period, FracDiv(Frac(24, 1), interval))
                    ELSE Frac(0, 1)
        c        == calculations(calc)
    IN  IF posSize.nan \/ posSize.num = 0
        THEN \A output \in DOMAIN c : c[output].num = 0
        ELSE /\ SameNumber(c.netProfitRate, netRate)
             /\ SameNumber(c.netProfitUSD, period)
             /\ SameNumber(c.dailyProfitUSD, daily)
             /\ SameNumber(c.monthlyProfitUSD, FracMul(daily, Frac(30, 1)))
             /\ SameNumber(c.annualProfitUSD, FracMul(daily, Frac(365, 1)))

(* C19: for every funding tab, netRate = shortRate/100 - longRate/100,     *)
(* periodProfit = positionSize * netRate, daily = periodProfit * (24 /     *)
(* intervalHours) when intervalHours > 0 and 0 otherwise, monthly = daily  *)
(* * 30, annual = daily * 365; a rate that does not parse counts as 0, and *)
(* with a positionSize that is zero or does not parse every output is 0.   *)
FundingProjectionAsClaimed ==
    \A k \in 1..Len(calculators) :
        calculators[k].type = "funding" => ProjectionIsRight(calculators[k])

(* A projection was saved whose long rate does not parse: a position of 5  *)
(* at 5 percent every 8 hours, 273.75 a year.                              *)
ProjectionWithUnparsedRateSaved ==
    /\ lastOp.op = "saveToHistory"
    /\ lastOp.arg.call
    /\ activeCalculator.type = "funding"
    /\ parseFloat(activeCalculator.longExchangeFR).nan
    /\ SameNumber(calculations(activeCalculator).annualProfitUSD, Frac(27375, 100))
    /\ Len(history) >= 1
    /\ history[1].result = <<"5", ".", "0", "0", "0", "0", "%", " ", "(",
                             "$", "0", ".", "2", "5", ")">>

---------------------------------------------------------------------------
(* Properties of the startup *)

(* C20: a stored value that is not parseable JSON, under the local         *)
(* settings key or under the history key, is not fatal at startup: the     *)
(* read is skipped, no error goes uncaught, startup completes and saving   *)
(* is enabled afterwards.                                                  *)
CorruptStorageIsSkipped ==
    /\ phase # "crashed"
    /\ (historyStored = CorruptJSON) => ~uncaught
    /\ (lastOp.op = "loadSettings" /\ lastOp.arg.localCorrupt)
          => /\ ~uncaught
             /\ ~isInitialLoad
             /\ phase = "ready"

(* The list a stored history value stands for *)
StoredItems(stored) == IF stored = NoHistory THEN <<>> ELSE stored.items

(* C28: from the mount until the first user mutation of History the value  *)
(* under the history key stays the one stored before the mount (the empty  *)
(* History of the first render is never written over it), and once the     *)
(* startup is over the History in memory is that stored value.             *)
HistoryKeptAtStartup ==
    [][(phase \in {"constructed", "mounted"} /\ historyStored # CorruptJSON
           /\ historyStored' # CorruptJSON)
          => /\ StoredItems(historyStored') = StoredItems(historyStored)
             /\ phase' \in {"loading", "ready"}
                   => history' = StoredItems(historyStored')]_vars

---------------------------------------------------------------------------
(* Properties of the teardown *)

(* C21: when CryptoCalculator is unmounted while a timeout of the          *)
(* debounced remote save is pending, the timeout is cancelled: no timeout  *)
(* is pending while the component is unmounted, and no step taken while it *)
(* is unmounted is a remote write or changes what the server stores.       *)
TeardownDropsPendingWrite ==
    /\ [](phase = "unmounted" => timers = {})
    /\ [][phase = "unmounted"
             => /\ lastOp'.op # "remoteWrite"
                /\ cloudStored' = cloudStored]_vars

(* The user has logged out with the remote save of the last change still   *)
(* to come.                                                                *)
LoggedOutUnderPendingTimeout ==
    /\ lastOp.op = "logout"
    /\ phase = "unmounted"
    /\ timeoutRef # NoTimeout
    /\ now < timeoutRef.due
    /\ cloudStored # timeoutRef.payload

---------------------------------------------------------------------------
(* Properties of the migration *)

(* The fields of the default state of the variant of calc *)
TemplateOf(calc) ==
    IF calc.type = "funding" THEN FundingTemplate ELSE ArbitrageTemplate

(* The instance the load made of the persisted instance p: it has every    *)
(* field of its variant's template, the persisted value where p had the    *)
(* field and the default one where not, and is arbitrage when p had no     *)
(* type.                                                                   *)
Backfilled(calc, p) ==
    LET fresh == IF calc.type = "funding"
                 THEN getNewFundingCalculator(0, 0)
                 ELSE getNewCalculator(0, 0, 0)
    IN  /\ "type" \in DOMAIN calc
        /\ calc.type = IF "type" \in DOMAIN p THEN p.type ELSE "arbitrage"
        /\ TemplateOf(calc) \subseteq DOMAIN calc
        /\ \A f \in DOMAIN p : calc[f] = p[f]
        /\ \A f \in TemplateOf(calc) \ DOMAIN p :
              IF f = "purchases"
              THEN Len(calc[f]) = 1 /\ calc[f][1].value = <<>>
              ELSE calc[f] = fresh[f]

(* The list the load was given: the remote one, or else the local one *)
PersistedList ==
    IF lastOp.arg.cloud # NoSnapshot THEN lastOp.arg.cloud.calculators
                                     ELSE lastOp.arg.local.calculators

(* C22: after the load every instance of the collection has a value for    *)
(* every field of the default state of its variant, whatever subset of     *)
(* those fields its persisted form lacked; an instance persisted without a *)
(* type is an arbitrage one; the fields the persisted form had keep their  *)
(* persisted values.                                                       *)
LoadBackfillsMissingFields ==
    lastOp.op = "loadSettings"
        => /\ Len(calculators) = Len(PersistedList)
           /\ \A k \in 1..Len(calculators) :
                 Backfilled(calculators[k], PersistedList[k])

(* A funding instance stored with nothing but id, name and type, and an    *)
(* arbitrage one stored without type and prices, have been loaded.         *)
BareInstanceLoaded ==
    /\ lastOp.op = "loadSettings"
    /\ Len(calculators) = 1
    /\ \/ /\ DOMAIN PersistedList[1] = {"id", "name", "type"}
          /\ calculators[1].type = "funding"
          /\ calculators[1].leverage = <<"1", "0">>
       \/ /\ DOMAIN PersistedList[1] = {"id", "name", "totalCoins"}
          /\ calculators[1].type = "arbitrage"
          /\ calculators[1].totalCoins = <<"3">>
          /\ calculators[1].openingExch1 = <<>>

---------------------------------------------------------------------------
(* Properties of the exchange-rate polling *)

(* C23: a rate request that fails, or whose response is not OK, leaves the *)
(* stored rate and the time of the last update as they were, and no        *)
(* request is sent in its place; every completion resets the loading flag; *)
(* a poll tick or a refresh sends a new request whatever is in flight, and *)
(* an OK response sets the rate whichever request it answers, so that the  *)
(* rate stored in the end is the one of the response that came last.       *)
RatePollingAsClaimed ==
    [][ /\ Ran("rateResponse")
            => /\ ~dollarLoading'
               /\ requests' = requests \ {RateRequest(lastOp'.id)}
               /\ RateRequest(lastOp'.id) \in requests
               /\ lastOp'.arg.outcome.kind # "ok"
                     => /\ dollarRate' = dollarRate
                        /\ lastDollarUpdate' = lastDollarUpdate
               /\ lastOp'.arg.outcome.kind = "ok"
                     => /\ dollarRate' = parseFloat(lastOp'.arg.outcome.bid)
                        /\ lastDollarUpdate' = now'
        /\ (lastOp'.op \in {"poll", "refresh"} /\ lastOp' # lastOp)
            => /\ RateRequest(now') \notin requests
               /\ requests' = requests \cup {RateRequest(now')}
               /\ dollarLoading'
               /\ dollarRate' = dollarRate
               /\ lastDollarUpdate' = lastDollarUpdate ]_vars

(* The first request, sent at the mount, is answered after a poll tick has *)
(* sent a later one and that one has been answered: the rate stored is the *)
(* one of the first request.                                               *)
OlderRequestAnsweredLast ==
    /\ lastOp.op = "rateResponse"
    /\ lastOp.id = StartClock
    /\ now >= StartClock + PollInterval
    /\ requests = {}
    /\ lastOp.arg.outcome.kind = "ok"
    /\ dollarRate = parseFloat(lastOp.arg.outcome.bid)
    /\ lastDollarUpdate = now
    /\ ~dollarLoading

---------------------------------------------------------------------------
(* Properties of the authentication *)

(* Nobody is logged in *)
LoggedOut == ~isAuthenticated /\ user = NoUser /\ token = NoToken

(* C24: once logout() has run, isAuthenticated stays false and user and    *)
(* token stay null until a login succeeds, also when a profile validation  *)
(* that was started before the logout is answered after it.                *)
LogoutIsFinalUntilLogin ==
    [][ LoggedOut
          => \/ LoggedOut'
             \/ Ran("loginResponse") /\ lastOp'.arg.outcome = "ok" ]_vars

(* CryptoCalculator is rendered *)
CalculatorShown == phase \notin {"unmounted", "crashed"}

(* C30: the calculator is shown only to an authenticated user with the     *)
(* plan 'Premium' or the role 'admin' once isLoading is false; an          *)
(* authenticated user without them gets the subscription gate and an       *)
(* unauthenticated one the login screen; a login that failed, and a token  *)
(* validation that failed or was rejected, never end with isAuthenticated  *)
(* true.                                                                   *)
AccessGate ==
    /\ [](/\ CalculatorShown
               => ~isLoading /\ isAuthenticated /\ hasPermission(user)
          /\ (~isLoading /\ isAuthenticated /\ ~hasPermission(user))
               => Screen = "gate" /\ ~CalculatorShown
          /\ (~isLoading /\ ~isAuthenticated)
               => Screen = "login" /\ ~CalculatorShown)
    /\ [][ ( \/ Ran("loginResponse") /\ lastOp'.arg.outcome # "ok"
             \/ Ran("validateResponse") /\ lastOp'.arg.outcome # "ok" )
             => ~isAuthenticated' ]_vars

(* C29: the load-time merge always ends with saving enabled: whatever the   *)
(* remote snapshot (absent, a failed fetch, any JSON object, with or        *)
(* without a calculators list) and the local snapshot (absent, corrupt, any *)
(* JSON object), once loadSettings has run isInitialLoad is false, and      *)
(* every later change of the tab collection is written to the local         *)
(* snapshot.                                                                *)
LoadAlwaysEnablesSaving ==
    /\ [](phase = "ready" => ~isInitialLoad)
    /\ [][ (phase = "ready" /\ calculators' # calculators)
             => localStored' = stateToSave(calculators', activeTabId', theme',
                                           isCompact', darkMode', isPinned') ]_vars

(* The ids of a list of instances, in its order *)
IdsOf(calcs) == [k \in 1..Len(calcs) |-> calcs[k].id]

(* C26: the tab collection survives a restart: for a logged-in user, a     *)
(* load that finds the local snapshot a session left at its teardown       *)
(* yields the calculators of that snapshot, same ids in the same order:    *)
(* a tab added less than the debounce delay before the teardown is there   *)
(* and a tab removed then is not.                                          *)
RestartKeepsTabCollection ==
    [][ ( /\ Ran("loadSettings")
          /\ token # NoToken
          /\ localStored # NoSnapshot /\ localStored # CorruptJSON
          /\ HasCalculators(localStored)
          /\ Len(localStored.calculators) > 0 )
          => IdsOf(calculators') = IdsOf(localStored.calculators) ]_vars

TimeoutSet(ref) == "payload" \in DOMAIN ref

(* C27: the payload of a remote write is the snapshot {calculators,        *)
(* activeTabId, theme, darkMode} as it was right after the last change of  *)
(* what the remote save watches, not the state in memory when the timeout  *)
(* fires: such a change captures the state after it, any other step, a     *)
(* field edit included, leaves the captured payload as it is, and the      *)
(* write carries it; and what the remote API holds changes only by a write *)
(* of a component that has a token.                                        *)
WritePayloadIsSnapshotOfLastChange ==
    [][ /\ QualifyingChange
            => TimeoutSet(timeoutRef') /\ timeoutRef'.payload = CurrentPayload'
        /\ (~QualifyingChange /\ TimeoutSet(timeoutRef))
            => timeoutRef' = timeoutRef
        /\ lastOp'.op \in {"remoteWrite", "noToken"} /\ now' = now
            => /\ TimeoutSet(timeoutRef)
               /\ lastOp'.arg = timeoutRef.payload
               /\ calculators' = calculators
        /\ cloudStored' # cloudStored
            => /\ token # NoToken
               /\ Ran("remoteWrite")
               /\ cloudStored' = timeoutRef.payload ]_vars

(* A write was stored whose payload lacks a field edit made after the      *)
(* change that set its timeout: the tabs in memory have the shape of the   *)
(* payload and not its fields.                                             *)
WrittenWithoutLaterFieldEdit ==
    /\ lastOp.op = "remoteWrite"
    /\ token # NoToken
    /\ cloudStored = lastOp.arg
    /\ cloudStored # CurrentPayload
    /\ Shape(cloudStored.calculators) = Shape(calculators)
    /\ cloudStored.activeTabId = activeTabId
    /\ \E k \in 1..Len(calculators) :
          cloudStored.calculators[k] # calculators[k]

(* The timeout of a component without a token fired and nothing was sent *)
FiredWithoutToken ==
    /\ lastOp.op = "noToken"
    /\ token = NoToken
    /\ cloudStored = NoSnapshot
    /\ timers = {}

(* The snapshot loadSettings starts from: the remote one, else the local *)
BaseSettings ==
    IF token # NoToken /\ cloudStored # NoSnapshot THEN cloudStored
    ELSE readLocalSettings(localStored)

SavesNothingWhileLoading ==
    isInitialLoad'
        => /\ localStored' = localStored
           /\ timers' \subseteq timers

MountKeepsPersistedSnapshot ==
    (Ran("mount") /\ localStored # NoSnapshot)
        => /\ localStored' = localStored
           /\ timers' \subseteq timers

LoadReplacesChangesMadeMeanwhile ==
    ( /\ Ran("loadSettings")
      /\ BaseSettings # NoSnapshot
      /\ HasCalculators(BaseSettings)
      /\ Len(BaseSettings.calculators) > 0 )
        => /\ IdsOf(calculators') = IdsOf(BaseSettings.calculators)
           /\ localStored' = stateToSave(calculators', activeTabId', theme',
                                         isCompact', darkMode', isPinned')

(* C25: nothing is saved before the load has finished: while isInitialLoad *)
(* is true no step writes the local settings key or sets a timeout of the  *)
(* remote save, so the mount, whose state is the defaults, leaves a        *)
(* persisted snapshot as it is; and when a snapshot with tabs exists the   *)
(* load installs its tabs in place of whatever the user changed while it   *)
(* was in flight.                                                          *)
NothingSavedBeforeLoadFinished ==
    [][ /\ SavesNothingWhileLoading
        /\ MountKeepsPersistedSnapshot
        /\ LoadReplacesChangesMadeMeanwhile ]_vars

=============================================================================
